---- MODULE Spec2Model ----
(***************************************************************************)
(* A model of mcp-server-kintone, a JSON-RPC (MCP) gateway in front of the *)
(* kintone REST API.  Three generations of the program are in the          *)
(* repository and each is modelled from its own source:                    *)
(*   - the current server (src/main.go, lines 1-1006): configured from     *)
(*     environment variables, access control by global allow/deny lists;   *)
(*   - the configuration-file server (src/unnamed/part_007): access        *)
(*     control by per-app {read, write, delete} permissions (Cfg_ names);  *)
(*   - the first server (src/unnamed/part_005): its own JSON-RPC loop      *)
(*     RPCServer.Serve and per-app permissions (Old_ names).               *)
(* A tool call is one atomic action: the handler's validation, permission  *)
(* check, backend requests and result.  The backend's answers are inputs.  *)
(***************************************************************************)
EXTENDS Integers, Sequences, FiniteSets, TLC

VARIABLES
    phase,      \* "boot" | "serving" | "exited": position of main()
    exitCode,   \* exit status of the process once phase = "exited"
    env,        \* the environment variables main.go reads at startup
    conf,       \* the configuration file part_005 / part_007 read at startup
    h,          \* the KintoneHandlers value built at startup
    call,       \* the last tools/call request: [name, args]
    reqs,       \* backend HTTP requests issued while handling the last call
    outcome,    \* what the last call returned: a result or a jsonrpc2.Error
    files,      \* names of the files in the download directory
    frame,      \* part_005: the last inbound frame RPCServer.Serve read
    wrote,      \* part_005: the frames Serve wrote while handling `frame`
    pc,         \* part_005: position of RPCServer.Serve in one turn of its loop
    pending,    \* part_005: what the running handler has still to do
    trace       \* history: what the process read, sent, wrote and opened, in order

vars ==
    <<phase, exitCode, env, conf, h, call, reqs, outcome, files, frame, wrote,
      pc, pending, trace>>

----------------------------------------------------------------------------
(* Bounds of the model *)

\* number of distinct app IDs the client and the configuration may name
NumApps == 2
\* longest allow / deny list, and longest list of configured apps
MaxList == 1
\* longest list of mentions in a comment
MaxMentions == 1
\* most files the download directory holds
MaxFiles == 1
\* most frames RPCServer.Serve reads in a run of the step-by-step loop
MaxFrames == 2
\* how many times downloadAttachmentFile is called on one directory
MaxDownloads == 3

----------------------------------------------------------------------------
(* Program constants *)

InvalidParamsCode == -32602
InternalErrorCode == -32603
MethodNotFoundCode == -32601
ParseErrorCode == -32700
InvalidRequestCode == -32600
StatusOK == 200

\* default and range of `limit` and `offset` per tool
ListAppsDefaultLimit == 100
ListAppsMaxLimit == 100
ReadRecordsDefaultLimit == 10
ReadRecordsMaxLimit == 500
ReadRecordsMaxOffset == 10000
CommentsDefaultLimit == 10
CommentsMaxLimit == 10

----------------------------------------------------------------------------
(* Generic helpers *)

Range(s) == {s[i] : i \in 1..Len(s)}

SeqsUpTo(S, n) == UNION {[1..k -> S] : k \in 0..n}

\* slices.Contains
Contains(s, x) == \E i \in 1..Len(s) : s[i] = x

AppIDs == {ToString(i) : i \in 1..NumApps}

\* an optional value (*int, *string): <<>> is nil, <<v>> is a pointer to v
Nil == <<>>
Ptr(v) == <<v>>
IsNil(p) == Len(p) = 0
Deref(p) == p[1]

----------------------------------------------------------------------------
(* Results and errors of a handler *)

NoOutcome ==
    [kind |-> "none", code |-> 0, msg |-> "", success |-> FALSE,
     apps |-> <<>>, hasNext |-> FALSE, deletedRecord |-> FALSE,
     filePath |-> <<>>, size |-> 0]

\* jsonrpc2.Error{Code: code, Message: msg}
Error(code, msg) == [NoOutcome EXCEPT !.kind = "error", !.code = code, !.msg = msg]

\* JSONContent(v): a result payload
Content == [NoOutcome EXCEPT !.kind = "result"]

NoErr == NoOutcome
IsErr(o) == o.kind = "error"

\* what a handler did: the backend requests it issued, then what it returned
Ret(rq, o) == [reqs |-> rq, out |-> o]

\* the same for a handler that writes to the download directory
RetFiles(rq, o, fs) == [reqs |-> rq, out |-> o, files |-> fs]

----------------------------------------------------------------------------
(* Arguments of a tool call and answers of the backend *)

\* the JSON `arguments` of a tools/call, decoded; `bad` is a payload that
\* json.Unmarshal rejects (not JSON, or a field of the wrong type)
NoArgs ==
    [bad |-> FALSE, appID |-> "", recordID |-> "", record |-> FALSE,
     limit |-> Nil, offset |-> 0, order |-> "", text |-> "",
     mentions |-> <<>>, fileKey |-> <<>>, path |-> Nil, content |-> Nil,
     base64 |-> FALSE, name |-> Nil]

\* parameters a backend request carries (in its query string or its body)
NoParams ==
    [app |-> "", rec |-> "", limit |-> -1, offset |-> -1, mentions |-> <<>>, ids |-> <<>>,
     name |-> Nil]

\* an answer of the backend, and of the local file system, to one step of a
\* handler: status 0 is a transport failure (no answer); `decodable` says
\* whether the body decodes as the expected JSON shape; `apps` is the page
\* of app IDs in an answer of /k/v1/apps.json; `fileName` is the decoded
\* filename of Content-Disposition (empty when absent) and `ext` the
\* extension of the Content-Type (empty when unknown); `openFails` and
\* `copyFails` say whether os.Create / os.Open and io.Copy fail; `size` is
\* the length of the body of a file download
OKResp ==
    [status |-> 200, decodable |-> TRUE, apps |-> <<>>, fileName |-> <<>>,
     ext |-> <<>>, openFails |-> FALSE, copyFails |-> FALSE, size |-> 0]

Resp(st, dec, page) == [OKResp EXCEPT !.status = st, !.decodable = dec, !.apps = page]

Statuses == {0, 200, 204, 500}

Responses ==
    {Resp(200, TRUE, <<>>), Resp(200, FALSE, <<>>), Resp(204, TRUE, <<>>),
     Resp(500, TRUE, <<>>), Resp(0, FALSE, <<>>)}

\* pages of distinct apps the backend may return for /k/v1/apps.json
Distinct(p) == \A i, j \in 1..Len(p) : i # j => p[i] # p[j]
Pages == {p \in SeqsUpTo(AppIDs, NumApps) : Distinct(p)}

AppsResponses ==
    {Resp(200, TRUE, p) : p \in Pages} \cup {Resp(500, TRUE, <<>>), Resp(200, FALSE, <<>>)}

\* answers to the one-app probe for a next page
ProbeResponses ==
    {Resp(200, TRUE, p) : p \in SeqsUpTo(AppIDs, 1)} \cup {Resp(500, TRUE, <<>>)}

\* answers to a file download
DownloadResponses ==
    {[OKResp EXCEPT !.fileName = n[1], !.ext = n[2], !.openFails = o, !.copyFails = c,
                    !.size = Len(n[1])] :
        n \in {<< <<"a", ".", "t">>, <<>> >>, << <<>>, <<".", "b">> >>}, o \in BOOLEAN, c \in BOOLEAN}
    \cup {Resp(500, TRUE, <<>>), Resp(0, FALSE, <<>>)}

\* answers to a file upload
UploadResponses ==
    {[r EXCEPT !.openFails = o] : r \in Responses, o \in BOOLEAN}
    \cup {[OKResp EXCEPT !.copyFails = TRUE]}

----------------------------------------------------------------------------
(* src/main.go, lines 1-1006: the current server *)

NoHandlers == [URL |-> "", Auth |-> "", Token |-> "", Allow |-> <<>>, Deny |-> <<>>, Apps |-> <<>>]

\* characters an environment variable holding a list is made of
Comma == ","
Space == " "

RECURSIVE Str(_)
\* the string a sequence of characters spells
Str(cs) == IF cs = <<>> THEN "" ELSE cs[1] \o Str(Tail(cs))

RECURSIVE Split(_, _)
\* strings.Split(v, ","): the pieces between the commas, `cur` is the piece
\* being read
Split(cs, cur) ==
    IF cs = <<>> THEN <<cur>>
    ELSE IF cs[1] = Comma THEN <<cur>> \o Split(Tail(cs), <<>>)
    ELSE Split(Tail(cs), Append(cur, cs[1]))

RECURSIVE TrimLeft(_)
TrimLeft(cs) == IF cs # <<>> /\ cs[1] = Space THEN TrimLeft(Tail(cs)) ELSE cs

RECURSIVE TrimRight(_)
TrimRight(cs) ==
    IF cs # <<>> /\ cs[Len(cs)] = Space THEN TrimRight(SubSeq(cs, 1, Len(cs) - 1)) ELSE cs

\* strings.TrimSpace
TrimSpace(cs) == TrimRight(TrimLeft(cs))

RECURSIVE TrimEach(_)
TrimEach(ps) ==
    IF ps = <<>> THEN <<>>
    ELSE IF ps[1] # <<>> THEN <<Str(TrimSpace(ps[1]))>> \o TrimEach(Tail(ps))
    ELSE TrimEach(Tail(ps))

\* GetenvList(key): nil when the variable is empty, else the non-empty
\* comma-separated pieces, each with the surrounding spaces removed
GetenvList(v) == IF v # <<>> THEN TrimEach(Split(v, <<>>)) ELSE <<>>

\* the errors NewKintoneHandlersFromEnv collects
ConfigErrors(e) ==
    (IF (e.username = "" \/ e.password = "") /\ e.token = "" THEN {"credentials"} ELSE {})
    \cup (IF e.baseURL = "" THEN {"url missing"}
          ELSE IF e.baseURL = "unparsable" THEN {"url unparsable"} ELSE {})

\* NewKintoneHandlersFromEnv: the handlers built from the environment; the
\* function sets URL, Auth and Token and nothing else
NewKintoneHandlersFromEnv(e) ==
    [NoHandlers EXCEPT
        !.Auth = IF e.username # "" /\ e.password # "" THEN "base64(" \o e.username \o ":" \o e.password \o ")" ELSE "",
        !.Token = e.token,
        !.URL = IF e.baseURL \notin {"", "unparsable"} THEN e.baseURL ELSE ""]

DenyListedMsg(id) ==
    "App ID " \o id \o " is inaccessible because it is listed in the KINTONE_DENY_APPS environment variable. Please check the MCP server settings."
NotAllowListedMsg(id) ==
    "App ID " \o id \o " is inaccessible because it is not listed in the KINTONE_ALLOW_APPS environment variable. Please check the MCP server settings."

\* checkPermissions with the allow list consulted before the deny list
checkPermissions_AllowFirst(hh, id) ==
    IF Len(hh.Allow) > 0 /\ ~Contains(hh.Allow, id) THEN Error(InvalidParamsCode, NotAllowListedMsg(id))
    ELSE IF Contains(hh.Deny, id) THEN Error(InvalidParamsCode, DenyListedMsg(id))
    ELSE NoErr

\* checkPermissions where an empty allow list allows nothing
checkPermissions_EmptyAllowDenies(hh, id) ==
    IF Contains(hh.Deny, id) THEN Error(InvalidParamsCode, DenyListedMsg(id))
    ELSE IF ~Contains(hh.Allow, id) THEN Error(InvalidParamsCode, NotAllowListedMsg(id))
    ELSE NoErr

\* KintoneHandlers.checkPermissions(id): nil, or the reason of the denial
checkPermissions(hh, id) ==
    IF Contains(hh.Deny, id) THEN Error(InvalidParamsCode, DenyListedMsg(id))
    ELSE IF Len(hh.Allow) > 0 /\ ~Contains(hh.Allow, id) THEN Error(InvalidParamsCode, NotAllowListedMsg(id))
    ELSE NoErr

\* KintoneHandlers.SendHTTP: builds the request, sends it, and fails on a
\* transport failure and on every status other than 200
SendHTTP(hh, method, path, query, body, contentType, params, resp) ==
    LET req == [method |-> method, path |-> path, query |-> query, body |-> body,
                ctype |-> IF body THEN contentType ELSE "",
                params |-> params, auth |-> hh.Auth, token |-> hh.Token,
                status |-> resp.status]
    IN  IF resp.status = 0
        THEN [req |-> req, err |-> Error(InternalErrorCode, "Failed to send HTTP request to kintone server")]
        ELSE IF resp.status # StatusOK
        THEN [req |-> req, err |-> Error(InternalErrorCode, "kintone server returned an error")]
        ELSE [req |-> req, err |-> NoErr]

\* KintoneHandlers.FetchHTTPWithReader: SendHTTP, then decode the body into
\* `result` when the caller passed one
FetchHTTPWithReader(hh, method, path, query, body, contentType, wantResult, params, resp) ==
    LET s == SendHTTP(hh, method, path, query, body, contentType, params, resp)
    IN  IF IsErr(s.err) THEN s
        ELSE IF wantResult /\ ~resp.decodable
        THEN [req |-> s.req, err |-> Error(InternalErrorCode, "Failed to parse kintone server's response")]
        ELSE s

\* KintoneHandlers.FetchHTTPWithJSON: the body, when there is one, is JSON
FetchHTTPWithJSON(hh, method, path, query, body, wantResult, params, resp) ==
    FetchHTTPWithReader(hh, method, path, query, body, "application/json", wantResult, params, resp)

ParseParamsMsg == "Failed to parse parameters"

\* ListApps without the loop over checkPermissions: the page as the backend
\* gave it
ListApps_Unfiltered(hh, a, rs) ==
    IF a.bad THEN Ret(<<>>, Error(InvalidParamsCode, ParseParamsMsg))
    ELSE IF a.offset < 0
    THEN Ret(<<>>, Error(InvalidParamsCode, "Offset must be greater than or equal to 0"))
    ELSE IF ~IsNil(a.limit) /\ (Deref(a.limit) < 1 \/ Deref(a.limit) > ListAppsMaxLimit)
    THEN Ret(<<>>, Error(InvalidParamsCode, "Limit must be between 1 and 100"))
    ELSE
    LET limit == IF IsNil(a.limit) THEN ListAppsDefaultLimit ELSE Deref(a.limit)
        f1 == FetchHTTPWithJSON(hh, "GET", "/k/v1/apps.json", FALSE, TRUE, TRUE,
                                [NoParams EXCEPT !.offset = a.offset, !.limit = limit, !.name = a.name], rs[1])
        apps == rs[1].apps
        f2 == FetchHTTPWithJSON(hh, "GET", "/k/v1/apps.json", FALSE, TRUE, TRUE,
                                [NoParams EXCEPT !.offset = a.offset + Len(rs[1].apps), !.limit = 1], rs[2])
        hasNext == ~IsErr(f2.err) /\ Len(rs[2].apps) > 0
    IN  IF IsErr(f1.err) THEN Ret(<<f1.req>>, f1.err)
        ELSE Ret(<<f1.req, f2.req>>, [Content EXCEPT !.apps = apps, !.hasNext = hasNext])

\* KintoneHandlers.ListApps: the first GET carries the whole request (offset,
\* limit, name), the probe for a next page an offset and a limit only
ListApps(hh, a, rs) ==
    IF a.bad THEN Ret(<<>>, Error(InvalidParamsCode, ParseParamsMsg))
    ELSE IF a.offset < 0
    THEN Ret(<<>>, Error(InvalidParamsCode, "Offset must be greater than or equal to 0"))
    ELSE IF ~IsNil(a.limit) /\ (Deref(a.limit) < 1 \/ Deref(a.limit) > ListAppsMaxLimit)
    THEN Ret(<<>>, Error(InvalidParamsCode, "Limit must be between 1 and 100"))
    ELSE
    LET limit == IF IsNil(a.limit) THEN ListAppsDefaultLimit ELSE Deref(a.limit)
        f1 == FetchHTTPWithJSON(hh, "GET", "/k/v1/apps.json", FALSE, TRUE, TRUE,
                                [NoParams EXCEPT !.offset = a.offset, !.limit = limit, !.name = a.name], rs[1])
        apps == SelectSeq(rs[1].apps, LAMBDA id : ~IsErr(checkPermissions(hh, id)))
        f2 == FetchHTTPWithJSON(hh, "GET", "/k/v1/apps.json", FALSE, TRUE, TRUE,
                                [NoParams EXCEPT !.offset = a.offset + Len(rs[1].apps), !.limit = 1], rs[2])
        hasNext == ~IsErr(f2.err) /\ Len(rs[2].apps) > 0
    IN  IF IsErr(f1.err) THEN Ret(<<f1.req>>, f1.err)
        ELSE Ret(<<f1.req, f2.req>>, [Content EXCEPT !.apps = apps, !.hasNext = hasNext])

\* KintoneHandlers.ReadAppInfo
ReadAppInfo(hh, a, rs) ==
    IF a.bad THEN Ret(<<>>, Error(InvalidParamsCode, ParseParamsMsg))
    ELSE IF a.appID = ""
    THEN Ret(<<>>, Error(InvalidParamsCode, "Argument 'appID' is required"))
    ELSE IF IsErr(checkPermissions(hh, a.appID)) THEN Ret(<<>>, checkPermissions(hh, a.appID))
    ELSE
    LET f1 == FetchHTTPWithJSON(hh, "GET", "/k/v1/app.json", TRUE, FALSE, TRUE,
                                [NoParams EXCEPT !.app = a.appID], rs[1])
        f2 == FetchHTTPWithJSON(hh, "GET", "/k/v1/app/form/fields.json", TRUE, FALSE, TRUE,
                                [NoParams EXCEPT !.app = a.appID], rs[2])
    IN  IF IsErr(f1.err) THEN Ret(<<f1.req>>, f1.err)
        ELSE IF IsErr(f2.err) THEN Ret(<<f1.req, f2.req>>, f2.err)
        ELSE Ret(<<f1.req, f2.req>>, Content)

\* KintoneHandlers.CreateRecord
CreateRecord(hh, a, rs) ==
    IF a.bad THEN Ret(<<>>, Error(InvalidParamsCode, ParseParamsMsg))
    ELSE IF a.appID = "" \/ ~a.record
    THEN Ret(<<>>, Error(InvalidParamsCode, "Arguments 'appID' and 'record' are required"))
    ELSE IF IsErr(checkPermissions(hh, a.appID)) THEN Ret(<<>>, checkPermissions(hh, a.appID))
    ELSE
    LET f1 == FetchHTTPWithJSON(hh, "POST", "/k/v1/record.json", FALSE, TRUE, TRUE,
                                [NoParams EXCEPT !.app = a.appID], rs[1])
    IN  IF IsErr(f1.err) THEN Ret(<<f1.req>>, f1.err)
        ELSE Ret(<<f1.req>>, [Content EXCEPT !.success = TRUE])

\* ReadRecords with the offset and the permissions checked after the request
ReadRecords_CheckLate(hh, a, rs) ==
    IF a.bad THEN Ret(<<>>, Error(InvalidParamsCode, ParseParamsMsg))
    ELSE IF a.appID = ""
    THEN Ret(<<>>, Error(InvalidParamsCode, "Argument 'appID' is required"))
    ELSE IF ~IsNil(a.limit) /\ (Deref(a.limit) < 1 \/ Deref(a.limit) > ReadRecordsMaxLimit)
    THEN Ret(<<>>, Error(InvalidParamsCode, "Limit must be between 1 and 500"))
    ELSE
    LET limit == IF IsNil(a.limit) THEN ReadRecordsDefaultLimit ELSE Deref(a.limit)
        f1 == FetchHTTPWithJSON(hh, "GET", "/k/v1/records.json", FALSE, TRUE, TRUE,
                                [NoParams EXCEPT !.app = a.appID, !.limit = limit, !.offset = a.offset], rs[1])
    IN  IF IsErr(f1.err) THEN Ret(<<f1.req>>, f1.err)
        ELSE IF a.offset < 0 \/ a.offset > ReadRecordsMaxOffset
        THEN Ret(<<f1.req>>, Error(InvalidParamsCode, "Offset must be between 0 and 10000"))
        ELSE IF IsErr(checkPermissions(hh, a.appID)) THEN Ret(<<f1.req>>, checkPermissions(hh, a.appID))
        ELSE Ret(<<f1.req>>, Content)

\* KintoneHandlers.ReadRecords
ReadRecords(hh, a, rs) ==
    IF a.bad THEN Ret(<<>>, Error(InvalidParamsCode, ParseParamsMsg))
    ELSE IF a.appID = ""
    THEN Ret(<<>>, Error(InvalidParamsCode, "Argument 'appID' is required"))
    ELSE IF ~IsNil(a.limit) /\ (Deref(a.limit) < 1 \/ Deref(a.limit) > ReadRecordsMaxLimit)
    THEN Ret(<<>>, Error(InvalidParamsCode, "Limit must be between 1 and 500"))
    ELSE IF a.offset < 0 \/ a.offset > ReadRecordsMaxOffset
    THEN Ret(<<>>, Error(InvalidParamsCode, "Offset must be between 0 and 10000"))
    ELSE IF IsErr(checkPermissions(hh, a.appID)) THEN Ret(<<>>, checkPermissions(hh, a.appID))
    ELSE
    LET limit == IF IsNil(a.limit) THEN ReadRecordsDefaultLimit ELSE Deref(a.limit)
        f1 == FetchHTTPWithJSON(hh, "GET", "/k/v1/records.json", FALSE, TRUE, TRUE,
                                [NoParams EXCEPT !.app = a.appID, !.limit = limit, !.offset = a.offset], rs[1])
    IN  IF IsErr(f1.err) THEN Ret(<<f1.req>>, f1.err)
        ELSE Ret(<<f1.req>>, Content)

\* KintoneHandlers.UpdateRecord
UpdateRecord(hh, a, rs) ==
    IF a.bad THEN Ret(<<>>, Error(InvalidParamsCode, ParseParamsMsg))
    ELSE IF a.appID = "" \/ a.recordID = "" \/ ~a.record
    THEN Ret(<<>>, Error(InvalidParamsCode, "Arguments 'appID', 'recordID', and 'record' are required"))
    ELSE IF IsErr(checkPermissions(hh, a.appID)) THEN Ret(<<>>, checkPermissions(hh, a.appID))
    ELSE
    LET f1 == FetchHTTPWithJSON(hh, "PUT", "/k/v1/record.json", FALSE, TRUE, TRUE,
                                [NoParams EXCEPT !.app = a.appID, !.rec = a.recordID], rs[1])
    IN  IF IsErr(f1.err) THEN Ret(<<f1.req>>, f1.err)
        ELSE Ret(<<f1.req>>, [Content EXCEPT !.success = TRUE])

\* KintoneHandlers.readSingleRecord
readSingleRecord(hh, appID, recordID, resp) ==
    FetchHTTPWithJSON(hh, "GET", "/k/v1/record.json", TRUE, FALSE, TRUE,
                      [NoParams EXCEPT !.app = appID, !.rec = recordID], resp)

\* DeleteRecord that sends the DELETE a second time when it failed
DeleteRecord_RetriesDelete(hh, a, rs) ==
    IF a.bad THEN Ret(<<>>, Error(InvalidParamsCode, ParseParamsMsg))
    ELSE IF a.appID = "" \/ a.recordID = ""
    THEN Ret(<<>>, Error(InvalidParamsCode, "Arguments 'appID' and 'recordID' are required"))
    ELSE IF IsErr(checkPermissions(hh, a.appID)) THEN Ret(<<>>, checkPermissions(hh, a.appID))
    ELSE
    LET readBack == ~IsErr(checkPermissions(hh, a.appID))
        f1 == readSingleRecord(hh, a.appID, a.recordID, rs[1])
        pre == IF readBack THEN <<f1.req>> ELSE <<>>
        f2 == FetchHTTPWithJSON(hh, "DELETE", "/k/v1/records.json", TRUE, FALSE, FALSE,
                                [NoParams EXCEPT !.app = a.appID, !.rec = a.recordID], rs[2])
    IN  IF readBack /\ IsErr(f1.err) THEN Ret(pre, f1.err)
        ELSE IF IsErr(f2.err) THEN Ret(pre \o <<f2.req, f2.req>>, f2.err)
        ELSE Ret(pre \o <<f2.req>>, [Content EXCEPT !.success = TRUE, !.deletedRecord = readBack])

\* KintoneHandlers.DeleteRecord
DeleteRecord(hh, a, rs) ==
    IF a.bad THEN Ret(<<>>, Error(InvalidParamsCode, ParseParamsMsg))
    ELSE IF a.appID = "" \/ a.recordID = ""
    THEN Ret(<<>>, Error(InvalidParamsCode, "Arguments 'appID' and 'recordID' are required"))
    ELSE IF IsErr(checkPermissions(hh, a.appID)) THEN Ret(<<>>, checkPermissions(hh, a.appID))
    ELSE
    LET readBack == ~IsErr(checkPermissions(hh, a.appID))
        f1 == readSingleRecord(hh, a.appID, a.recordID, rs[1])
        pre == IF readBack THEN <<f1.req>> ELSE <<>>
        f2 == FetchHTTPWithJSON(hh, "DELETE", "/k/v1/records.json", TRUE, FALSE, FALSE,
                                [NoParams EXCEPT !.app = a.appID, !.rec = a.recordID], rs[2])
    IN  IF readBack /\ IsErr(f1.err) THEN Ret(pre, f1.err)
        ELSE IF IsErr(f2.err) THEN Ret(pre \o <<f2.req>>, f2.err)
        ELSE Ret(pre \o <<f2.req>>, [Content EXCEPT !.success = TRUE, !.deletedRecord = readBack])

Digits == {"0", "1", "2", "3", "4", "5", "6", "7", "8", "9"}

RECURSIVE Itoa(_)
\* the decimal digits of n >= 0, as fmt's %d prints them
Itoa(n) == IF n < 10 THEN <<ToString(n)>> ELSE Itoa(n \div 10) \o <<ToString(n % 10)>>

DigitValue(c) == CHOOSE d \in 0..9 : ToString(d) = c

RECURSIVE AtoiValue(_)
AtoiValue(cs) == IF cs = <<>> THEN 0 ELSE AtoiValue(SubSeq(cs, 1, Len(cs) - 1)) * 10 + DigitValue(cs[Len(cs)])

\* strconv.Atoi: fails on the empty string and on every non-digit
AtoiOK(cs) == cs # <<>> /\ \A i \in 1..Len(cs) : cs[i] \in Digits

\* filepath.Ext: the suffix starting at the last dot, empty without a dot
Ext(name) ==
    LET dots == {i \in 1..Len(name) : name[i] = "."}
    IN  IF dots = {} THEN <<>>
        ELSE SubSeq(name, CHOOSE i \in dots : \A j \in dots : j <= i, Len(name))

\* strings.LastIndex(base, " ("), counted from 1; 0 when there is none
LastIndexParen(base) ==
    LET at == {i \in 1..(Len(base) - 1) : base[i] = " " /\ base[i + 1] = "("}
    IN  IF at = {} THEN 0 ELSE CHOOSE i \in at : \A j \in at : j <= i

\* fmt.Sprintf("%s (%d)%s", base, num, ext)
Numbered(base, num, ext) == base \o <<" ", "(">> \o Itoa(num) \o <<")">> \o ext

RECURSIVE FirstFree(_, _, _, _)
\* the loop of getDownloadFilePath: count upward until os.Stat fails
FirstFree(fs, base, num, ext) ==
    IF Numbered(base, num, ext) \notin fs THEN Numbered(base, num, ext)
    ELSE FirstFree(fs, base, num + 1, ext)

\* getDownloadFilePath without the loop: the first numbered name, free or not
getDownloadFilePath_NoScan(fs, fileName) ==
    IF fileName \notin fs THEN fileName
    ELSE Numbered(SubSeq(fileName, 1, Len(fileName) - Len(Ext(fileName))), 1, Ext(fileName))

\* getDownloadFilePath(fileName), in a download directory holding `fs`
getDownloadFilePath(fs, fileName) ==
    IF fileName \notin fs THEN fileName
    ELSE
    LET ext == Ext(fileName)
        base0 == SubSeq(fileName, 1, Len(fileName) - Len(ext))
        i == LastIndexParen(base0)
        \* base[i+2:] runs to the end of base, closing parenthesis included
        digits == SubSeq(base0, i + 2, Len(base0))
        parsed == base0 # <<>> /\ base0[Len(base0)] = ")" /\ i > 1 /\ AtoiOK(digits)
        base == IF parsed THEN SubSeq(base0, 1, i - 1) ELSE base0
        num == IF parsed THEN AtoiValue(digits) ELSE 1
    IN  FirstFree(fs, base, num, ext)

\* DownloadAttachmentFile without the os.Remove after a failed io.Copy
DownloadAttachmentFile_KeepsPartial(hh, a, rs, fs) ==
    IF a.bad THEN RetFiles(<<>>, Error(InvalidParamsCode, ParseParamsMsg), fs)
    ELSE IF a.fileKey = <<>>
    THEN RetFiles(<<>>, Error(InvalidParamsCode, "Argument 'fileKey' is required"), fs)
    ELSE
    LET s == SendHTTP(hh, "GET", "/k/v1/file.json", TRUE, FALSE, "", NoParams, rs[1])
        fileName == IF rs[1].fileName # <<>> THEN rs[1].fileName ELSE a.fileKey \o rs[1].ext
        outPath == getDownloadFilePath(fs, fileName)
    IN  IF IsErr(s.err) THEN RetFiles(<<s.req>>, s.err, fs)
        ELSE IF rs[1].openFails
        THEN RetFiles(<<s.req>>, [Error(InternalErrorCode, "Failed to create file for attachment")
                                     EXCEPT !.filePath = outPath], fs)
        ELSE IF rs[1].copyFails
        THEN RetFiles(<<s.req>>, [Error(InternalErrorCode, "Failed to save attachment file")
                                     EXCEPT !.filePath = outPath], fs \cup {outPath})
        ELSE RetFiles(<<s.req>>, [Content EXCEPT !.success = TRUE, !.filePath = outPath,
                                                 !.size = rs[1].size],
                      fs \cup {outPath})

\* KintoneHandlers.DownloadAttachmentFile
DownloadAttachmentFile(hh, a, rs, fs) ==
    IF a.bad THEN RetFiles(<<>>, Error(InvalidParamsCode, ParseParamsMsg), fs)
    ELSE IF a.fileKey = <<>>
    THEN RetFiles(<<>>, Error(InvalidParamsCode, "Argument 'fileKey' is required"), fs)
    ELSE
    LET s == SendHTTP(hh, "GET", "/k/v1/file.json", TRUE, FALSE, "", NoParams, rs[1])
        fileName == IF rs[1].fileName # <<>> THEN rs[1].fileName ELSE a.fileKey \o rs[1].ext
        outPath == getDownloadFilePath(fs, fileName)
    IN  IF IsErr(s.err) THEN RetFiles(<<s.req>>, s.err, fs)
        ELSE IF rs[1].openFails
        THEN RetFiles(<<s.req>>, [Error(InternalErrorCode, "Failed to create file for attachment")
                                     EXCEPT !.filePath = outPath], fs)
        ELSE IF rs[1].copyFails
        THEN RetFiles(<<s.req>>, [Error(InternalErrorCode, "Failed to save attachment file")
                                     EXCEPT !.filePath = outPath], fs \ {outPath})
        ELSE RetFiles(<<s.req>>, [Content EXCEPT !.success = TRUE, !.filePath = outPath,
                                                 !.size = rs[1].size],
                      fs \cup {outPath})

\* what UploadAttachmentFile did: the backend requests it issued, what it
\* returned, and the paths it gave to os.Open
RetOpened(rq, o, op) == [reqs |-> rq, out |-> o, opened |-> op]

\* UploadAttachmentFile with the file opened before the two arguments are
\* compared
UploadAttachmentFile_OpenFirst(hh, a, rs) ==
    LET op == IF IsNil(a.path) THEN <<>> ELSE <<Deref(a.path)>>
    IN
    IF a.bad THEN RetOpened(<<>>, Error(InvalidParamsCode, ParseParamsMsg), <<>>)
    ELSE IF ~IsNil(a.path) /\ rs[1].openFails
    THEN RetOpened(<<>>, Error(InternalErrorCode, "Failed to open file"), op)
    ELSE IF IsNil(a.path) /\ IsNil(a.content)
    THEN RetOpened(<<>>, Error(InvalidParamsCode, "Arguments 'path' or 'content' is required"), op)
    ELSE IF ~IsNil(a.path) /\ ~IsNil(a.content)
    THEN RetOpened(<<>>, Error(InvalidParamsCode, "Arguments 'path' and 'content' are mutually exclusive"), op)
    ELSE IF (~IsNil(a.path) \/ a.base64) /\ rs[1].copyFails
    THEN RetOpened(<<>>, Error(InternalErrorCode, "Failed to read file content"), op)
    ELSE
    LET f1 == FetchHTTPWithReader(hh, "POST", "/k/v1/file.json", FALSE, TRUE, "multipart/form-data",
                                  TRUE, NoParams, rs[1])
    IN  IF IsErr(f1.err) THEN RetOpened(<<f1.req>>, f1.err, op)
        ELSE RetOpened(<<f1.req>>, [Content EXCEPT !.success = TRUE], op)

\* KintoneHandlers.UploadAttachmentFile
UploadAttachmentFile(hh, a, rs) ==
    IF a.bad THEN RetOpened(<<>>, Error(InvalidParamsCode, ParseParamsMsg), <<>>)
    ELSE IF IsNil(a.path) /\ IsNil(a.content)
    THEN RetOpened(<<>>, Error(InvalidParamsCode, "Arguments 'path' or 'content' is required"), <<>>)
    ELSE IF ~IsNil(a.path) /\ ~IsNil(a.content)
    THEN RetOpened(<<>>, Error(InvalidParamsCode, "Arguments 'path' and 'content' are mutually exclusive"), <<>>)
    ELSE
    LET op == IF IsNil(a.path) THEN <<>> ELSE <<Deref(a.path)>>
    IN
    IF ~IsNil(a.path) /\ rs[1].openFails
    THEN RetOpened(<<>>, Error(InternalErrorCode, "Failed to open file"), op)
    ELSE IF (~IsNil(a.path) \/ a.base64) /\ rs[1].copyFails
    THEN RetOpened(<<>>, Error(InternalErrorCode, "Failed to read file content"), op)
    ELSE
    LET f1 == FetchHTTPWithReader(hh, "POST", "/k/v1/file.json", FALSE, TRUE, "multipart/form-data",
                                  TRUE, NoParams, rs[1])
    IN  IF IsErr(f1.err) THEN RetOpened(<<f1.req>>, f1.err, op)
        ELSE RetOpened(<<f1.req>>, [Content EXCEPT !.success = TRUE], op)

MentionTypes == {"USER", "GROUP", "ORGANIZATION"}

\* KintoneHandlers.ReadRecordComments
ReadRecordComments(hh, a, rs) ==
    IF a.bad THEN Ret(<<>>, Error(InvalidParamsCode, ParseParamsMsg))
    ELSE IF a.appID = "" \/ a.recordID = ""
    THEN Ret(<<>>, Error(InvalidParamsCode, "Arguments 'appID' and 'recordID' are required"))
    ELSE IF a.order # "" /\ a.order # "asc" /\ a.order # "desc"
    THEN Ret(<<>>, Error(InvalidParamsCode, "Order must be 'asc' or 'desc'"))
    ELSE IF a.offset < 0
    THEN Ret(<<>>, Error(InvalidParamsCode, "Offset must be greater than or equal to 0"))
    ELSE IF ~IsNil(a.limit) /\ (Deref(a.limit) < 0 \/ Deref(a.limit) > CommentsMaxLimit)
    THEN Ret(<<>>, Error(InvalidParamsCode, "Limit must be between 1 and 10"))
    ELSE IF IsErr(checkPermissions(hh, a.appID)) THEN Ret(<<>>, checkPermissions(hh, a.appID))
    ELSE
    LET limit == IF IsNil(a.limit) THEN CommentsDefaultLimit ELSE Deref(a.limit)
        f1 == FetchHTTPWithJSON(hh, "GET", "/k/v1/record/comments.json", FALSE, TRUE, TRUE,
                                [NoParams EXCEPT !.app = a.appID, !.rec = a.recordID,
                                                 !.limit = limit, !.offset = a.offset], rs[1])
    IN  IF IsErr(f1.err) THEN Ret(<<f1.req>>, f1.err)
        ELSE Ret(<<f1.req>>, Content)

\* the mentions sent as they came, a missing type left empty
NormalizeMentions_Keep(ms) == ms

\* the loop over req.Comment.Mentions: a mention with no type becomes a USER
NormalizeMentions(ms) ==
    [i \in 1..Len(ms) |-> IF ms[i].type = "" THEN [ms[i] EXCEPT !.type = "USER"] ELSE ms[i]]

\* KintoneHandlers.CreateRecordComment
CreateRecordComment(hh, a, rs) ==
    IF a.bad THEN Ret(<<>>, Error(InvalidParamsCode, ParseParamsMsg))
    ELSE IF a.appID = "" \/ a.recordID = "" \/ a.text = ""
    THEN Ret(<<>>, Error(InvalidParamsCode, "Arguments 'appID', 'recordID', and 'comment.text' are required"))
    ELSE IF \E i \in 1..Len(a.mentions) :
                /\ a.mentions[i].code = ""
                /\ \A j \in 1..(i - 1) : a.mentions[j].type \in MentionTypes \cup {""}
    THEN Ret(<<>>, Error(InvalidParamsCode, "Mention code is required"))
    ELSE IF \E i \in 1..Len(a.mentions) : a.mentions[i].type \notin MentionTypes \cup {""}
    THEN Ret(<<>>, Error(InvalidParamsCode, "Mention type must be 'USER', 'GROUP', or 'ORGANIZATION'"))
    ELSE IF IsErr(checkPermissions(hh, a.appID)) THEN Ret(<<>>, checkPermissions(hh, a.appID))
    ELSE
    LET f1 == FetchHTTPWithJSON(hh, "POST", "/k/v1/record/comment.json", FALSE, TRUE, FALSE,
                                [NoParams EXCEPT !.app = a.appID, !.rec = a.recordID,
                                                 !.mentions = NormalizeMentions(a.mentions)], rs[1])
    IN  IF IsErr(f1.err) THEN Ret(<<f1.req>>, f1.err)
        ELSE Ret(<<f1.req>>, [Content EXCEPT !.success = TRUE])

AppTools ==
    {"readAppInfo", "createRecord", "readRecords", "updateRecord", "deleteRecord",
     "readRecordComments", "createRecordComment"}

\* a handler that leaves the download directory as it is
KeepFiles(r, fs) == RetFiles(r.reqs, r.out, fs)

\* the message of the default case of ToolsCall
UnknownToolMsg == "Unknown tool name"

\* ToolsCall with no default case in the switch: an unknown name falls through
\* to the end and is answered with an empty result
ToolsCall_NoDefault(hh, name, a, rs, fs) ==
    CASE name = "listApps" -> KeepFiles(ListApps(hh, a, rs), fs)
      [] name = "readAppInfo" -> KeepFiles(ReadAppInfo(hh, a, rs), fs)
      [] name = "createRecord" -> KeepFiles(CreateRecord(hh, a, rs), fs)
      [] name = "readRecords" -> KeepFiles(ReadRecords(hh, a, rs), fs)
      [] name = "updateRecord" -> KeepFiles(UpdateRecord(hh, a, rs), fs)
      [] name = "deleteRecord" -> KeepFiles(DeleteRecord(hh, a, rs), fs)
      [] name = "downloadAttachmentFile" -> DownloadAttachmentFile(hh, a, rs, fs)
      [] name = "uploadAttachmentFile" -> KeepFiles(UploadAttachmentFile(hh, a, rs), fs)
      [] name = "readRecordComments" -> KeepFiles(ReadRecordComments(hh, a, rs), fs)
      [] name = "createRecordComment" -> KeepFiles(CreateRecordComment(hh, a, rs), fs)
      [] OTHER -> RetFiles(<<>>, Content, fs)

\* KintoneHandlers.ToolsCall: dispatch on the tool name
ToolsCall(hh, name, a, rs, fs) ==
    CASE name = "listApps" -> KeepFiles(ListApps(hh, a, rs), fs)
      [] name = "readAppInfo" -> KeepFiles(ReadAppInfo(hh, a, rs), fs)
      [] name = "createRecord" -> KeepFiles(CreateRecord(hh, a, rs), fs)
      [] name = "readRecords" -> KeepFiles(ReadRecords(hh, a, rs), fs)
      [] name = "updateRecord" -> KeepFiles(UpdateRecord(hh, a, rs), fs)
      [] name = "deleteRecord" -> KeepFiles(DeleteRecord(hh, a, rs), fs)
      [] name = "downloadAttachmentFile" -> DownloadAttachmentFile(hh, a, rs, fs)
      [] name = "uploadAttachmentFile" -> KeepFiles(UploadAttachmentFile(hh, a, rs), fs)
      [] name = "readRecordComments" -> KeepFiles(ReadRecordComments(hh, a, rs), fs)
      [] name = "createRecordComment" -> KeepFiles(CreateRecordComment(hh, a, rs), fs)
      [] OTHER -> RetFiles(<<>>, Error(InvalidParamsCode, UnknownToolMsg), fs)

\* KintoneHandlers.ToolsList: the names of the tools in tools_list.json, the
\* template embedded in the program and served as it is
ToolsList ==
    {"listApps", "readAppInfo", "createRecord", "readRecords", "updateRecord",
     "deleteRecord", "downloadAttachmentFile", "uploadAttachmentFile",
     "readRecordComments", "createRecordComment",
     "updateProcessManagementAssignee", "executeProcessManagementAction"}

----------------------------------------------------------------------------
(* Inputs the client may send *)

BadArgs == [NoArgs EXCEPT !.bad = TRUE]
ArgAppIDs == AppIDs \cup {""}
ArgRecordIDs == {"", "7"}
\* an omitted limit, and the values around the ends of a range 0..max
ArgLimits(max) == {Nil} \cup {Ptr(n) : n \in {-1, 0, 1, max, max + 1}}
ArgOffsets == {-1, 0}
\* an omitted name filter, and one
ArgNames == {Nil, Ptr("x")}
ArgOrders == {"", "asc", "desc", "newest"}
ArgTexts == {"", "hello"}
Mentions ==
    {[code |-> "", type |-> "USER"]}
      \cup {[code |-> "u1", type |-> t] : t \in MentionTypes \cup {"", "ROLE"}}
ArgMentions == SeqsUpTo(Mentions, MaxMentions)

----------------------------------------------------------------------------
(* The current server as a state machine *)

BaseURL == "https://example.cybozu.com"

NoEnv == [username |-> "", password |-> "", token |-> "", baseURL |-> "",
          allowApps |-> <<>>, denyApps |-> <<>>]
NoConf == [username |-> "", password |-> "", token |-> "", url |-> "", apps |-> <<>>]
NoCall == [name |-> "", args |-> NoArgs]
\* an inbound JSON-RPC message: `id` is nil when the message has none,
\* `badParams` says that the params of a tools/call do not decode, `tool`
\* and `args` are the name and the arguments of a tools/call
NoFrame == [id |-> Nil, method |-> "", badParams |-> FALSE, tool |-> "", args |-> NoArgs]

\* values of KINTONE_ALLOW_APPS and KINTONE_DENY_APPS, as character strings
EnvListValues ==
    {<<>>, <<"1">>, <<"2", Comma, Space, "1">>}

Environments ==
    {e \in [username : {"", "u"}, password : {"", "p"}, token : {"", "t"},
            baseURL : {"", "unparsable", BaseURL},
            allowApps : EnvListValues, denyApps : EnvListValues] :
        e.username = "" => e.password = ""}

\* the server is waiting for its next request
Idle == phase = "serving" /\ call = NoCall

\* the server, waiting for a request, reads a tools/call and handles it to
\* the end; a tool call leaves the configuration and the process state alone
DoCall(name, a, rs) ==
    /\ phase = "serving"
    /\ call = NoCall
    /\ \E r \in {ToolsCall(h, name, a, rs, files)} :
           /\ call' = [name |-> name, args |-> a]
           /\ reqs' = r.reqs
           /\ outcome' = r.out
           /\ files' = r.files
    /\ UNCHANGED <<phase, exitCode, env, conf, h, frame, wrote, pc, pending, trace>>

\* a call whose first request is answered from R1 and second from R2
CallWith(name, a, R1, R2) ==
    \E r1 \in R1, r2 \in R2 : DoCall(name, a, <<r1, r2>>)

\* main(): build the handlers from the environment, exit with status 1 when
\* the configuration is unusable, else start serving
Startup ==
    /\ phase = "boot"
    /\ IF ConfigErrors(env) # {}
       THEN /\ phase' = "exited"
            /\ exitCode' = 1
            /\ h' = h
       ELSE /\ phase' = "serving"
            /\ exitCode' = exitCode
            /\ h' = NewKintoneHandlersFromEnv(env)
    /\ UNCHANGED <<env, conf, call, reqs, outcome, files, frame, wrote, pc, pending, trace>>

CallListApps ==
    /\ Idle
    /\ \E a \in {BadArgs} \cup {[NoArgs EXCEPT !.offset = o, !.limit = l, !.name = n] :
                                  o \in ArgOffsets, l \in ArgLimits(ListAppsMaxLimit), n \in ArgNames} :
           CallWith("listApps", a, AppsResponses, ProbeResponses)

CallReadAppInfo ==
    /\ Idle
    /\ \E a \in {BadArgs} \cup {[NoArgs EXCEPT !.appID = id] : id \in ArgAppIDs} :
           CallWith("readAppInfo", a, Responses, Responses)

CallCreateRecord ==
    /\ Idle
    /\ \E a \in {BadArgs} \cup {[NoArgs EXCEPT !.appID = id, !.record = rec] : id \in ArgAppIDs, rec \in BOOLEAN} :
           CallWith("createRecord", a, Responses, {OKResp})

CallReadRecords ==
    /\ Idle
    /\ \E a \in {BadArgs} \cup {[NoArgs EXCEPT !.appID = id, !.limit = l, !.offset = o] :
                                   id \in ArgAppIDs, l \in ArgLimits(ReadRecordsMaxLimit),
                                   o \in {-1, 0, ReadRecordsMaxOffset, ReadRecordsMaxOffset + 1}} :
           CallWith("readRecords", a, Responses, {OKResp})

CallUpdateRecord ==
    /\ Idle
    /\ \E a \in {BadArgs} \cup {[NoArgs EXCEPT !.appID = id, !.recordID = rid, !.record = rec] :
                                   id \in ArgAppIDs, rid \in ArgRecordIDs, rec \in BOOLEAN} :
           CallWith("updateRecord", a, Responses, {OKResp})

CallDeleteRecord ==
    /\ Idle
    /\ \E a \in {BadArgs} \cup {[NoArgs EXCEPT !.appID = id, !.recordID = rid] :
                                   id \in ArgAppIDs, rid \in ArgRecordIDs} :
           CallWith("deleteRecord", a, Responses, Responses)

CallReadRecordComments ==
    /\ Idle
    /\ \E a \in {BadArgs} \cup {[NoArgs EXCEPT !.appID = id, !.recordID = rid, !.order = ord,
                                               !.offset = o, !.limit = l] :
                                   id \in ArgAppIDs, rid \in ArgRecordIDs, ord \in ArgOrders,
                                   o \in ArgOffsets, l \in ArgLimits(CommentsMaxLimit)} :
           CallWith("readRecordComments", a, Responses, {OKResp})

CallCreateRecordComment ==
    /\ Idle
    /\ \E a \in {BadArgs} \cup {[NoArgs EXCEPT !.appID = id, !.recordID = rid, !.text = t, !.mentions = ms] :
                                   id \in ArgAppIDs, rid \in ArgRecordIDs, t \in ArgTexts, ms \in ArgMentions} :
           CallWith("createRecordComment", a, Responses, {OKResp})

CallDownloadAttachmentFile ==
    /\ Idle
    /\ Cardinality(files) < MaxFiles
    /\ \E a \in {BadArgs} \cup {[NoArgs EXCEPT !.fileKey = k] : k \in {<<>>, <<"k">>}} :
        CallWith("downloadAttachmentFile", a, DownloadResponses, {OKResp})

CallUploadAttachmentFile ==
    /\ Idle
    /\ \E a \in {BadArgs} \cup {[NoArgs EXCEPT !.path = pa, !.content = co, !.base64 = b] :
                                   pa \in {Nil, Ptr("/tmp/in.txt")}, co \in {Nil, Ptr("aGk=")}, b \in BOOLEAN} :
           CallWith("uploadAttachmentFile", a, UploadResponses, {OKResp})

\* the client calls a tool it found in the answer of tools/list, with
\* arguments that do not parse or with none
CallListedTool ==
    /\ Idle
    /\ \E name \in ToolsList, a \in {BadArgs, NoArgs} :
           DoCall(name, a, <<OKResp, OKResp>>)

CallUnknownTool ==
    /\ Idle
    /\ \E a \in {BadArgs, NoArgs, [NoArgs EXCEPT !.appID = "1"]} :
           DoCall("dropDatabase", a, <<OKResp, OKResp>>)

\* the answer of the handled call is written and the server waits for the
\* next request; nothing of the call is kept
Respond ==
    /\ phase = "serving"
    /\ call # NoCall
    /\ call' = NoCall
    /\ reqs' = <<>>
    /\ outcome' = NoOutcome
    /\ UNCHANGED <<phase, exitCode, env, conf, h, files, frame, wrote, pc, pending, trace>>

NextServe ==
    \/ Respond
    \/ CallListApps
    \/ CallReadAppInfo
    \/ CallCreateRecord
    \/ CallReadRecords
    \/ CallUpdateRecord
    \/ CallDeleteRecord
    \/ CallReadRecordComments
    \/ CallCreateRecordComment
    \/ CallDownloadAttachmentFile
    \/ CallUploadAttachmentFile
    \/ CallUnknownTool
    \/ CallListedTool

\* lists of distinct app IDs, in any order
AppLists == {l \in SeqsUpTo(AppIDs, MaxList) : Distinct(l)}

\* every KintoneHandlers value with some allow list and some deny list
HandlersValues ==
    {[NoHandlers EXCEPT !.URL = BaseURL, !.Token = "t", !.Allow = al, !.Deny = dl] :
        al \in AppLists, dl \in AppLists}

\* a handler that is not running has nothing left to do
NoPending == [reqs |-> <<>>, wrote |-> <<>>, out |-> NoOutcome]

InitCommon ==
    /\ exitCode = 0
    /\ call = NoCall
    /\ reqs = <<>>
    /\ outcome = NoOutcome
    /\ files = {}
    /\ frame = NoFrame
    /\ wrote = <<>>
    /\ pc = "read"
    /\ pending = NoPending
    /\ trace = <<>>

\* the handlers of the global allow/deny policy, for any two lists
InitHandlers ==
    /\ InitCommon
    /\ phase = "serving"
    /\ env = NoEnv
    /\ conf = NoConf
    /\ h \in HandlersValues

SpecHandlers == InitHandlers /\ [][NextServe]_vars

\* the process started from its environment
InitEnv ==
    /\ InitCommon
    /\ phase = "boot"
    /\ env \in Environments
    /\ conf = NoConf
    /\ h = NoHandlers

NextEnv == Startup \/ NextServe

SpecEnv == InitEnv /\ [][NextEnv]_vars

----------------------------------------------------------------------------
(* src/unnamed/part_007: the server configured by a settings file, with
   read / write / delete permissions per app *)

PermSomething == "do something"
PermRead == "read"
PermWrite == "write"
PermDelete == "delete"
Perms == {PermSomething, PermRead, PermWrite, PermDelete}

NoPermissions == [Read |-> FALSE, Write |-> FALSE, Delete |-> FALSE]

\* KintoneHandlers.getApp: the first configured app with this ID, or nil
Cfg_getApp(hh, id) ==
    IF \E i \in 1..Len(hh.Apps) : hh.Apps[i].ID = id
    THEN Ptr(hh.Apps[CHOOSE i \in 1..Len(hh.Apps) :
                        hh.Apps[i].ID = id /\ \A j \in 1..(i - 1) : hh.Apps[j].ID # id])
    ELSE Nil

\* the condition under which checkPermissions accepts one requested Perm
Cfg_Granted(app, p) ==
    \/ p = PermRead /\ app.Permissions.Read
    \/ p = PermWrite /\ app.Permissions.Write
    \/ p = PermDelete /\ app.Permissions.Delete
    \/ p = PermSomething

RECURSIVE Join(_)
\* strings.Join(ss, ", ")
Join(ss) ==
    IF ss = <<>> THEN ""
    ELSE IF Len(ss) = 1 THEN ss[1]
    ELSE ss[1] \o ", " \o Join(Tail(ss))

Cfg_NotFoundMsg(id) ==
    "App ID " \o id \o " is not found or not allowed to access. Please check the MCP server settings and/or ask to the administrator."
Cfg_DeniedMsg(ps, id) ==
    "Permission denied to " \o Join(ps) \o " records in app ID " \o id
        \o ". Please check the MCP server settings and/or ask to the administrator."

\* checkPermissions where the capability-agnostic check needs some permission
Cfg_checkPermissions_SomethingNeedsRead(hh, id, ps) ==
    LET app == Cfg_getApp(hh, id)
    IN  IF IsNil(app) THEN Error(InvalidParamsCode, Cfg_NotFoundMsg(id))
        ELSE IF \E i \in 1..Len(ps) : Cfg_Granted(Deref(app), ps[i]) /\ (ps[i] = PermSomething => Deref(app).Permissions.Read)
        THEN NoErr
        ELSE Error(InvalidParamsCode, Cfg_DeniedMsg(ps, id))

\* KintoneHandlers.checkPermissions(id, ps...): nil as soon as one of the
\* requested Perms is granted to the configured app
Cfg_checkPermissions(hh, id, ps) ==
    LET app == Cfg_getApp(hh, id)
    IN  IF IsNil(app) THEN Error(InvalidParamsCode, Cfg_NotFoundMsg(id))
        ELSE IF \E i \in 1..Len(ps) : Cfg_Granted(Deref(app), ps[i]) THEN NoErr
        ELSE Error(InvalidParamsCode, Cfg_DeniedMsg(ps, id))

\* KintoneHandlers.SendHTTP: a body, when there is one, is sent as JSON
Cfg_SendHTTP(hh, method, path, query, body, params, resp) ==
    LET req == [method |-> method, path |-> path, query |-> query, body |-> body,
                ctype |-> IF body THEN "application/json" ELSE "",
                params |-> params, auth |-> hh.Auth, token |-> hh.Token,
                status |-> resp.status]
    IN  IF resp.status = 0
        THEN [req |-> req, err |-> Error(InternalErrorCode, "Failed to send HTTP request to kintone server")]
        ELSE IF resp.status # StatusOK
        THEN [req |-> req, err |-> Error(InternalErrorCode, "kintone server returned an error")]
        ELSE [req |-> req, err |-> NoErr]

\* KintoneHandlers.FetchHTTP
Cfg_FetchHTTP(hh, method, path, query, body, wantResult, params, resp) ==
    LET s == Cfg_SendHTTP(hh, method, path, query, body, params, resp)
    IN  IF IsErr(s.err) THEN s
        ELSE IF wantResult /\ ~resp.decodable
        THEN [req |-> s.req, err |-> Error(InternalErrorCode, "Failed to parse kintone server's response")]
        ELSE s

\* KintoneHandlers.ListApps: asks for the configured apps; takes no arguments
Cfg_ListApps(hh, a, rs) ==
    LET ids == [i \in 1..Len(hh.Apps) |-> hh.Apps[i].ID]
        f1 == Cfg_FetchHTTP(hh, "GET", "/k/v1/apps.json", FALSE, TRUE, TRUE,
                            [NoParams EXCEPT !.ids = ids], rs[1])
    IN  IF IsErr(f1.err) THEN Ret(<<f1.req>>, f1.err)
        ELSE Ret(<<f1.req>>, [Content EXCEPT !.apps = rs[1].apps])

\* KintoneHandlers.ReadAppInfo
Cfg_ReadAppInfo(hh, a, rs) ==
    IF a.bad THEN Ret(<<>>, Error(InvalidParamsCode, ParseParamsMsg))
    ELSE IF a.appID = ""
    THEN Ret(<<>>, Error(InvalidParamsCode, "Argument 'appID' is required"))
    ELSE IF IsErr(Cfg_checkPermissions(hh, a.appID, <<PermSomething>>))
    THEN Ret(<<>>, Cfg_checkPermissions(hh, a.appID, <<PermSomething>>))
    ELSE
    LET f1 == Cfg_FetchHTTP(hh, "GET", "/k/v1/app.json", TRUE, FALSE, TRUE,
                            [NoParams EXCEPT !.app = a.appID], rs[1])
        f2 == Cfg_FetchHTTP(hh, "GET", "/k/v1/app/form/fields.json", TRUE, FALSE, TRUE,
                            [NoParams EXCEPT !.app = a.appID], rs[2])
    IN  IF IsErr(f1.err) THEN Ret(<<f1.req>>, f1.err)
        ELSE IF IsErr(f2.err) THEN Ret(<<f1.req, f2.req>>, f2.err)
        ELSE Ret(<<f1.req, f2.req>>, Content)

\* KintoneHandlers.CreateRecord
Cfg_CreateRecord(hh, a, rs) ==
    IF a.bad THEN Ret(<<>>, Error(InvalidParamsCode, ParseParamsMsg))
    ELSE IF a.appID = "" \/ ~a.record
    THEN Ret(<<>>, Error(InvalidParamsCode, "Arguments 'appID' and 'record' are required"))
    ELSE IF IsErr(Cfg_checkPermissions(hh, a.appID, <<PermWrite>>))
    THEN Ret(<<>>, Cfg_checkPermissions(hh, a.appID, <<PermWrite>>))
    ELSE
    LET f1 == Cfg_FetchHTTP(hh, "POST", "/k/v1/record.json", FALSE, TRUE, TRUE,
                            [NoParams EXCEPT !.app = a.appID], rs[1])
    IN  IF IsErr(f1.err) THEN Ret(<<f1.req>>, f1.err)
        ELSE Ret(<<f1.req>>, [Content EXCEPT !.success = TRUE])

\* KintoneHandlers.ReadRecords
Cfg_ReadRecords(hh, a, rs) ==
    IF a.bad THEN Ret(<<>>, Error(InvalidParamsCode, ParseParamsMsg))
    ELSE IF a.appID = ""
    THEN Ret(<<>>, Error(InvalidParamsCode, "Argument 'appID' is required"))
    ELSE IF ~IsNil(a.limit) /\ (Deref(a.limit) < 1 \/ Deref(a.limit) > ReadRecordsMaxLimit)
    THEN Ret(<<>>, Error(InvalidParamsCode, "Limit must be between 1 and 500"))
    ELSE IF a.offset < 0 \/ a.offset > ReadRecordsMaxOffset
    THEN Ret(<<>>, Error(InvalidParamsCode, "Offset must be between 0 and 10000"))
    ELSE IF IsErr(Cfg_checkPermissions(hh, a.appID, <<PermRead>>))
    THEN Ret(<<>>, Cfg_checkPermissions(hh, a.appID, <<PermRead>>))
    ELSE
    LET limit == IF IsNil(a.limit) THEN ReadRecordsDefaultLimit ELSE Deref(a.limit)
        f1 == Cfg_FetchHTTP(hh, "GET", "/k/v1/records.json", FALSE, TRUE, TRUE,
                            [NoParams EXCEPT !.app = a.appID, !.limit = limit, !.offset = a.offset], rs[1])
    IN  IF IsErr(f1.err) THEN Ret(<<f1.req>>, f1.err)
        ELSE Ret(<<f1.req>>, Content)

\* KintoneHandlers.UpdateRecord
Cfg_UpdateRecord(hh, a, rs) ==
    IF a.bad THEN Ret(<<>>, Error(InvalidParamsCode, ParseParamsMsg))
    ELSE IF a.appID = "" \/ a.recordID = "" \/ ~a.record
    THEN Ret(<<>>, Error(InvalidParamsCode, "Arguments 'appID', 'recordID', and 'record' are required"))
    ELSE IF IsErr(Cfg_checkPermissions(hh, a.appID, <<PermWrite>>))
    THEN Ret(<<>>, Cfg_checkPermissions(hh, a.appID, <<PermWrite>>))
    ELSE
    LET f1 == Cfg_FetchHTTP(hh, "PUT", "/k/v1/record.json", FALSE, TRUE, TRUE,
                            [NoParams EXCEPT !.app = a.appID, !.rec = a.recordID], rs[1])
    IN  IF IsErr(f1.err) THEN Ret(<<f1.req>>, f1.err)
        ELSE Ret(<<f1.req>>, [Content EXCEPT !.success = TRUE])

\* KintoneHandlers.readSingleRecord
Cfg_readSingleRecord(hh, appID, recordID, resp) ==
    Cfg_FetchHTTP(hh, "GET", "/k/v1/record.json", TRUE, FALSE, TRUE,
                  [NoParams EXCEPT !.app = appID, !.rec = recordID], resp)

\* DeleteRecord that reads the record back whatever the read permission
Cfg_DeleteRecord_AlwaysReadsBack(hh, a, rs) ==
    IF a.bad THEN Ret(<<>>, Error(InvalidParamsCode, ParseParamsMsg))
    ELSE IF a.appID = "" \/ a.recordID = ""
    THEN Ret(<<>>, Error(InvalidParamsCode, "Arguments 'appID' and 'recordID' are required"))
    ELSE IF IsErr(Cfg_checkPermissions(hh, a.appID, <<PermDelete>>))
    THEN Ret(<<>>, Cfg_checkPermissions(hh, a.appID, <<PermDelete>>))
    ELSE
    LET f1 == Cfg_readSingleRecord(hh, a.appID, a.recordID, rs[1])
        f2 == Cfg_FetchHTTP(hh, "DELETE", "/k/v1/records.json", TRUE, FALSE, FALSE,
                            [NoParams EXCEPT !.app = a.appID, !.rec = a.recordID], rs[2])
    IN  IF IsErr(f1.err) THEN Ret(<<f1.req>>, f1.err)
        ELSE IF IsErr(f2.err) THEN Ret(<<f1.req, f2.req>>, f2.err)
        ELSE Ret(<<f1.req, f2.req>>, [Content EXCEPT !.success = TRUE, !.deletedRecord = TRUE])

\* DeleteRecord that goes on to the DELETE when the read-back failed
Cfg_DeleteRecord_DeletesAnyway(hh, a, rs) ==
    IF a.bad THEN Ret(<<>>, Error(InvalidParamsCode, ParseParamsMsg))
    ELSE IF a.appID = "" \/ a.recordID = ""
    THEN Ret(<<>>, Error(InvalidParamsCode, "Arguments 'appID' and 'recordID' are required"))
    ELSE IF IsErr(Cfg_checkPermissions(hh, a.appID, <<PermDelete>>))
    THEN Ret(<<>>, Cfg_checkPermissions(hh, a.appID, <<PermDelete>>))
    ELSE
    LET readBack == ~IsErr(Cfg_checkPermissions(hh, a.appID, <<PermRead>>))
        f1 == Cfg_readSingleRecord(hh, a.appID, a.recordID, rs[1])
        pre == IF readBack THEN <<f1.req>> ELSE <<>>
        f2 == Cfg_FetchHTTP(hh, "DELETE", "/k/v1/records.json", TRUE, FALSE, FALSE,
                            [NoParams EXCEPT !.app = a.appID, !.rec = a.recordID], rs[2])
    IN  IF IsErr(f2.err) THEN Ret(pre \o <<f2.req>>, f2.err)
        ELSE Ret(pre \o <<f2.req>>, [Content EXCEPT !.success = TRUE,
                                                    !.deletedRecord = readBack /\ ~IsErr(f1.err)])

\* DeleteRecord that never reads the record back
Cfg_DeleteRecord_NeverReadsBack(hh, a, rs) ==
    IF a.bad THEN Ret(<<>>, Error(InvalidParamsCode, ParseParamsMsg))
    ELSE IF a.appID = "" \/ a.recordID = ""
    THEN Ret(<<>>, Error(InvalidParamsCode, "Arguments 'appID' and 'recordID' are required"))
    ELSE IF IsErr(Cfg_checkPermissions(hh, a.appID, <<PermDelete>>))
    THEN Ret(<<>>, Cfg_checkPermissions(hh, a.appID, <<PermDelete>>))
    ELSE
    LET f2 == Cfg_FetchHTTP(hh, "DELETE", "/k/v1/records.json", TRUE, FALSE, FALSE,
                            [NoParams EXCEPT !.app = a.appID, !.rec = a.recordID], rs[2])
    IN  IF IsErr(f2.err) THEN Ret(<<f2.req>>, f2.err)
        ELSE Ret(<<f2.req>>, [Content EXCEPT !.success = TRUE])

\* KintoneHandlers.DeleteRecord: the record is read back before the deletion
\* only when the app may be read
Cfg_DeleteRecord(hh, a, rs) ==
    IF a.bad THEN Ret(<<>>, Error(InvalidParamsCode, ParseParamsMsg))
    ELSE IF a.appID = "" \/ a.recordID = ""
    THEN Ret(<<>>, Error(InvalidParamsCode, "Arguments 'appID' and 'recordID' are required"))
    ELSE IF IsErr(Cfg_checkPermissions(hh, a.appID, <<PermDelete>>))
    THEN Ret(<<>>, Cfg_checkPermissions(hh, a.appID, <<PermDelete>>))
    ELSE
    LET readBack == ~IsErr(Cfg_checkPermissions(hh, a.appID, <<PermRead>>))
        f1 == Cfg_readSingleRecord(hh, a.appID, a.recordID, rs[1])
        pre == IF readBack THEN <<f1.req>> ELSE <<>>
        f2 == Cfg_FetchHTTP(hh, "DELETE", "/k/v1/records.json", TRUE, FALSE, FALSE,
                            [NoParams EXCEPT !.app = a.appID, !.rec = a.recordID], rs[2])
    IN  IF readBack /\ IsErr(f1.err) THEN Ret(pre, f1.err)
        ELSE IF IsErr(f2.err) THEN Ret(pre \o <<f2.req>>, f2.err)
        ELSE Ret(pre \o <<f2.req>>, [Content EXCEPT !.success = TRUE, !.deletedRecord = readBack])

\* KintoneHandlers.DownloadAttachmentFile: the file is returned as a resource
Cfg_DownloadAttachmentFile(hh, a, rs) ==
    IF a.bad THEN Ret(<<>>, Error(InvalidParamsCode, ParseParamsMsg))
    ELSE IF a.fileKey = <<>>
    THEN Ret(<<>>, Error(InvalidParamsCode, "Argument 'fileKey' is required"))
    ELSE
    LET s1 == Cfg_SendHTTP(hh, "GET", "/k/v1/file.json", TRUE, FALSE, NoParams, rs[1])
    IN  IF IsErr(s1.err) THEN Ret(<<s1.req>>, s1.err)
        ELSE IF rs[1].copyFails
        THEN Ret(<<s1.req>>, Error(InternalErrorCode, "Failed to read attachment file"))
        ELSE Ret(<<s1.req>>, Content)

\* KintoneHandlers.ReadRecordComments
Cfg_ReadRecordComments(hh, a, rs) ==
    IF a.bad THEN Ret(<<>>, Error(InvalidParamsCode, ParseParamsMsg))
    ELSE IF a.appID = "" \/ a.recordID = ""
    THEN Ret(<<>>, Error(InvalidParamsCode, "Arguments 'appID' and 'recordID' are required"))
    ELSE IF a.order # "" /\ a.order # "asc" /\ a.order # "desc"
    THEN Ret(<<>>, Error(InvalidParamsCode, "Order must be 'asc' or 'desc'"))
    ELSE IF a.offset < 0
    THEN Ret(<<>>, Error(InvalidParamsCode, "Offset must be greater than or equal to 0"))
    ELSE IF ~IsNil(a.limit) /\ (Deref(a.limit) < 0 \/ Deref(a.limit) > CommentsMaxLimit)
    THEN Ret(<<>>, Error(InvalidParamsCode, "Limit must be between 1 and 10"))
    ELSE IF IsErr(Cfg_checkPermissions(hh, a.appID, <<PermRead>>))
    THEN Ret(<<>>, Cfg_checkPermissions(hh, a.appID, <<PermRead>>))
    ELSE
    LET limit == IF IsNil(a.limit) THEN CommentsDefaultLimit ELSE Deref(a.limit)
        f1 == Cfg_FetchHTTP(hh, "GET", "/k/v1/record/comments.json", FALSE, TRUE, TRUE,
                            [NoParams EXCEPT !.app = a.appID, !.rec = a.recordID,
                                             !.limit = limit, !.offset = a.offset], rs[1])
    IN  IF IsErr(f1.err) THEN Ret(<<f1.req>>, f1.err)
        ELSE Ret(<<f1.req>>, Content)

\* KintoneHandlers.CreateRecordComment
Cfg_CreateRecordComment(hh, a, rs) ==
    IF a.bad THEN Ret(<<>>, Error(InvalidParamsCode, ParseParamsMsg))
    ELSE IF a.appID = "" \/ a.recordID = "" \/ a.text = ""
    THEN Ret(<<>>, Error(InvalidParamsCode, "Arguments 'appID', 'recordID', and 'comment.text' are required"))
    ELSE IF \E i \in 1..Len(a.mentions) :
                /\ \A j \in 1..(i - 1) : a.mentions[j].code # "" /\ a.mentions[j].type \in MentionTypes \cup {""}
                /\ a.mentions[i].code = ""
    THEN Ret(<<>>, Error(InvalidParamsCode, "Mention code is required"))
    ELSE IF \E i \in 1..Len(a.mentions) : a.mentions[i].type \notin MentionTypes \cup {""}
    THEN Ret(<<>>, Error(InvalidParamsCode, "Mention type must be 'USER', 'GROUP', or 'ORGANIZATION'"))
    ELSE IF IsErr(Cfg_checkPermissions(hh, a.appID, <<PermRead, PermWrite>>))
    THEN Ret(<<>>, Cfg_checkPermissions(hh, a.appID, <<PermRead, PermWrite>>))
    ELSE
    LET f1 == Cfg_FetchHTTP(hh, "POST", "/k/v1/record/comment.json", FALSE, TRUE, FALSE,
                            [NoParams EXCEPT !.app = a.appID, !.rec = a.recordID,
                                             !.mentions = NormalizeMentions(a.mentions)], rs[1])
    IN  IF IsErr(f1.err) THEN Ret(<<f1.req>>, f1.err)
        ELSE Ret(<<f1.req>>, [Content EXCEPT !.success = TRUE])

\* KintoneHandlers.ToolsCall: dispatch on the tool name
Cfg_ToolsCall(hh, name, a, rs) ==
    CASE name = "listApps" -> Cfg_ListApps(hh, a, rs)
      [] name = "readAppInfo" -> Cfg_ReadAppInfo(hh, a, rs)
      [] name = "createRecord" -> Cfg_CreateRecord(hh, a, rs)
      [] name = "readRecords" -> Cfg_ReadRecords(hh, a, rs)
      [] name = "updateRecord" -> Cfg_UpdateRecord(hh, a, rs)
      [] name = "deleteRecord" -> Cfg_DeleteRecord(hh, a, rs)
      [] name = "downloadAttachmentFile" -> Cfg_DownloadAttachmentFile(hh, a, rs)
      [] name = "readRecordComments" -> Cfg_ReadRecordComments(hh, a, rs)
      [] name = "createRecordComment" -> Cfg_CreateRecordComment(hh, a, rs)
      [] OTHER -> Ret(<<>>, Error(InvalidParamsCode, "Unknown tool name"))

\* JSON text of a member of a "permissions" object: true, false, or a number
JSONTrue == "true"
JSONFalse == "false"
JSONNumber == "1"

PermKeys == {"read", "write", "delete"}

\* the members a "permissions" object may hold: booleans under any key, or
\* a single member that is not a boolean
PermMembers == [key : PermKeys, value : {JSONTrue, JSONFalse}]
PermObjects ==
    {o \in SeqsUpTo(PermMembers, Cardinality(PermKeys)) :
        \A i, j \in 1..Len(o) : i # j => o[i].key # o[j].key}
      \cup {<<[key |-> k, value |-> JSONNumber]>> : k \in PermKeys}

\* the "permissions" entry of an app in the settings file: absent, null, an
\* object (its members in the order they are written), or another value
PermJSONs ==
    {[kind |-> k, members |-> <<>>] : k \in {"absent", "null", "number"}}
      \cup {[kind |-> "object", members |-> o] : o \in PermObjects}

\* the value json.Unmarshal stores in a map for `key`: the last member with
\* that key, or nil when there is none
MapLookup(members, key) ==
    IF \E i \in 1..Len(members) : members[i].key = key
    THEN Ptr(members[CHOOSE i \in 1..Len(members) :
                        members[i].key = key /\ \A j \in (i + 1)..Len(members) : members[j].key # key].value)
    ELSE Nil

\* getPerm that falls back to false for every absent key
Cfg_getPerm_DefaultFalse(members, key, default) ==
    LET v == MapLookup(members, key)
    IN  IF IsNil(v) THEN [ok |-> TRUE, b |-> FALSE]
        ELSE IF Deref(v) = JSONTrue THEN [ok |-> TRUE, b |-> TRUE]
        ELSE IF Deref(v) = JSONFalse THEN [ok |-> TRUE, b |-> FALSE]
        ELSE [ok |-> FALSE, b |-> FALSE]

\* getPerm in KintoneAppConfig.UnmarshalJSON: the boolean under `key`, the
\* default when the key is absent, an error when the value is no boolean
Cfg_getPerm(members, key, default) ==
    LET v == MapLookup(members, key)
    IN  IF IsNil(v) THEN [ok |-> TRUE, b |-> default]
        ELSE IF Deref(v) = JSONTrue THEN [ok |-> TRUE, b |-> TRUE]
        ELSE IF Deref(v) = JSONFalse THEN [ok |-> TRUE, b |-> FALSE]
        ELSE [ok |-> FALSE, b |-> FALSE]

\* KintoneAppConfig.UnmarshalJSON: `raw` is one element of "apps"; a
\* "permissions" that is absent or null leaves the map nil
Cfg_UnmarshalApp(raw) ==
    LET members == IF raw.permissions.kind = "object" THEN raw.permissions.members ELSE <<>>
        r == Cfg_getPerm(members, "read", TRUE)
        w == Cfg_getPerm(members, "write", FALSE)
        d == Cfg_getPerm(members, "delete", FALSE)
    IN  IF raw.permissions.kind = "number" \/ ~r.ok \/ ~w.ok \/ ~d.ok
        THEN [ok |-> FALSE, app |-> [ID |-> raw.id, Permissions |-> NoPermissions]]
        ELSE [ok |-> TRUE,
              app |-> [ID |-> raw.id, Permissions |-> [Read |-> r.b, Write |-> w.b, Delete |-> d.b]]]

\* main(): why the settings file is refused, if it is
Cfg_ConfigErrors(c) ==
    IF \E i \in 1..Len(c.apps) : ~Cfg_UnmarshalApp(c.apps[i]).ok THEN {"parse"}
    ELSE IF (c.username = "" \/ c.password = "") /\ c.token = "" THEN {"credentials"}
    ELSE IF Len(c.apps) = 0 THEN {"apps"}
    ELSE IF c.url = "unparsable" THEN {"url"}
    ELSE {}

\* main(): the handlers built from the settings file
Cfg_Handlers(c) ==
    [NoHandlers EXCEPT
        !.URL = c.url,
        !.Auth = IF c.username # "" /\ c.password # "" THEN "base64(" \o c.username \o ":" \o c.password \o ")" ELSE "",
        !.Token = c.token,
        !.Apps = [i \in 1..Len(c.apps) |-> Cfg_UnmarshalApp(c.apps[i]).app]]

\* main(): read the settings file, exit with status 1 when it is unusable,
\* else start serving
Cfg_Startup ==
    /\ phase = "boot"
    /\ IF Cfg_ConfigErrors(conf) # {}
       THEN /\ phase' = "exited"
            /\ exitCode' = 1
            /\ h' = h
       ELSE /\ phase' = "serving"
            /\ exitCode' = exitCode
            /\ h' = Cfg_Handlers(conf)
    /\ UNCHANGED <<env, conf, call, reqs, outcome, files, frame, wrote, pc, pending, trace>>

\* the server, waiting for a request, handles a tools/call to the end
Cfg_DoCall(name, a, rs) ==
    /\ phase = "serving"
    /\ call = NoCall
    /\ \E r \in {Cfg_ToolsCall(h, name, a, rs)} :
           /\ call' = [name |-> name, args |-> a]
           /\ reqs' = r.reqs
           /\ outcome' = r.out
    /\ UNCHANGED <<phase, exitCode, env, conf, h, files, frame, wrote, pc, pending, trace>>

Cfg_CallWith(name, a, R1, R2) ==
    \E r1 \in R1, r2 \in R2 : Cfg_DoCall(name, a, <<r1, r2>>)

Cfg_CallListApps ==
    /\ Idle
    /\ \E a \in {BadArgs, NoArgs} : Cfg_CallWith("listApps", a, AppsResponses, {OKResp})

Cfg_CallReadAppInfo ==
    /\ Idle
    /\ \E a \in {BadArgs} \cup {[NoArgs EXCEPT !.appID = id] : id \in ArgAppIDs} :
           Cfg_CallWith("readAppInfo", a, Responses, Responses)

Cfg_CallCreateRecord ==
    /\ Idle
    /\ \E a \in {BadArgs} \cup {[NoArgs EXCEPT !.appID = id, !.record = rec] : id \in ArgAppIDs, rec \in BOOLEAN} :
           Cfg_CallWith("createRecord", a, Responses, {OKResp})

Cfg_CallReadRecords ==
    /\ Idle
    /\ \E a \in {BadArgs} \cup {[NoArgs EXCEPT !.appID = id, !.limit = l, !.offset = o] :
                                   id \in ArgAppIDs, l \in ArgLimits(ReadRecordsMaxLimit),
                                   o \in {-1, 0, ReadRecordsMaxOffset, ReadRecordsMaxOffset + 1}} :
           Cfg_CallWith("readRecords", a, Responses, {OKResp})

Cfg_CallUpdateRecord ==
    /\ Idle
    /\ \E a \in {BadArgs} \cup {[NoArgs EXCEPT !.appID = id, !.recordID = rid, !.record = rec] :
                                   id \in ArgAppIDs, rid \in ArgRecordIDs, rec \in BOOLEAN} :
           Cfg_CallWith("updateRecord", a, Responses, {OKResp})

Cfg_CallDeleteRecord ==
    /\ Idle
    /\ \E a \in {BadArgs} \cup {[NoArgs EXCEPT !.appID = id, !.recordID = rid] :
                                   id \in ArgAppIDs, rid \in ArgRecordIDs} :
           Cfg_CallWith("deleteRecord", a, Responses, Responses)

Cfg_CallDownloadAttachmentFile ==
    /\ Idle
    /\ \E a \in {BadArgs} \cup {[NoArgs EXCEPT !.fileKey = k] : k \in {<<>>, <<"k">>}} :
           Cfg_CallWith("downloadAttachmentFile", a, DownloadResponses, {OKResp})

Cfg_CallReadRecordComments ==
    /\ Idle
    /\ \E a \in {BadArgs} \cup {[NoArgs EXCEPT !.appID = id, !.recordID = rid, !.order = ord,
                                               !.offset = o, !.limit = l] :
                                   id \in ArgAppIDs, rid \in ArgRecordIDs, ord \in ArgOrders,
                                   o \in ArgOffsets, l \in ArgLimits(CommentsMaxLimit)} :
           Cfg_CallWith("readRecordComments", a, Responses, {OKResp})

Cfg_CallCreateRecordComment ==
    /\ Idle
    /\ \E a \in {BadArgs} \cup {[NoArgs EXCEPT !.appID = id, !.recordID = rid, !.text = t, !.mentions = ms] :
                                   id \in ArgAppIDs, rid \in ArgRecordIDs, t \in ArgTexts, ms \in ArgMentions} :
           Cfg_CallWith("createRecordComment", a, Responses, {OKResp})

Cfg_CallUnknownTool ==
    /\ Idle
    /\ \E a \in {BadArgs, NoArgs, [NoArgs EXCEPT !.appID = "1"]} :
           Cfg_DoCall("dropDatabase", a, <<OKResp, OKResp>>)

Cfg_NextServe ==
    \/ Respond
    \/ Cfg_CallListApps
    \/ Cfg_CallReadAppInfo
    \/ Cfg_CallCreateRecord
    \/ Cfg_CallReadRecords
    \/ Cfg_CallUpdateRecord
    \/ Cfg_CallDeleteRecord
    \/ Cfg_CallDownloadAttachmentFile
    \/ Cfg_CallReadRecordComments
    \/ Cfg_CallCreateRecordComment
    \/ Cfg_CallUnknownTool

\* the configured apps a server may run with: at least one app, each ID once,
\* any permissions
Cfg_AppValues == [ID : AppIDs, Permissions : [Read : BOOLEAN, Write : BOOLEAN, Delete : BOOLEAN]]
Cfg_AppLists ==
    {l \in SeqsUpTo(Cfg_AppValues, MaxList) :
        Len(l) > 0 /\ \A i, j \in 1..Len(l) : i # j => l[i].ID # l[j].ID}

Cfg_HandlersValues ==
    {[NoHandlers EXCEPT !.URL = BaseURL, !.Token = "t", !.Apps = l] : l \in Cfg_AppLists}

\* the handlers of the per-app permission policy, for any configured apps
InitApps ==
    /\ InitCommon
    /\ phase = "serving"
    /\ env = NoEnv
    /\ conf = NoConf
    /\ h \in Cfg_HandlersValues

SpecApps == InitApps /\ [][Cfg_NextServe]_vars

\* the settings files: credentials, URL, and apps with distinct IDs and any
\* "permissions" entry
RawApps == [id : AppIDs, permissions : PermJSONs]
Configurations ==
    {c \in [username : {"", "u"}, password : {"", "p"}, token : {"", "t"},
            url : {"unparsable", BaseURL}, apps : SeqsUpTo(RawApps, MaxList)] :
        /\ (c.username = "") = (c.password = "")
        /\ \A i, j \in 1..Len(c.apps) : i # j => c.apps[i].id # c.apps[j].id}

\* the process started with a settings file
InitConfig ==
    /\ InitCommon
    /\ phase = "boot"
    /\ env = NoEnv
    /\ conf \in Configurations
    /\ h = NoHandlers

\* reading the settings file
NextConfig == Cfg_Startup

SpecConfig == InitConfig /\ [][NextConfig]_vars

\* settings files with any credentials and any URL, a missing one included,
\* and the one app 1 with every permission
Start_Configurations ==
    {[username |-> u, password |-> pw, token |-> t, url |-> l,
      apps |-> <<[id |-> "1",
                  permissions |-> [kind |-> "object",
                                   members |-> <<[key |-> "write", value |-> JSONTrue],
                                                 [key |-> "delete", value |-> JSONTrue]>>]]>>] :
        u \in {"", "u"}, pw \in {"", "p"}, t \in {"", "t"}, l \in {"", "unparsable", BaseURL}}

\* the process started with one of them
InitStart ==
    /\ InitCommon
    /\ phase = "boot"
    /\ env = NoEnv
    /\ conf \in Start_Configurations
    /\ h = NoHandlers

\* main(): read the settings file, then serve
NextStart == Cfg_Startup \/ Cfg_NextServe

SpecStart == InitStart /\ [][NextStart]_vars

----------------------------------------------------------------------------
(* src/unnamed/part_005: the first server, with its own JSON-RPC loop,
   numeric app IDs and a Permissions decoder *)

\* Permissions.UnmarshalJSON, which encoding/json calls only when the app
\* has a "permissions" entry: "ok" with the permissions, "error" when the
\* entry is no object, "panic" when a member is no boolean (v.(bool))
Old_UnmarshalPermissions(pj) ==
    LET members == IF pj.kind = "object" THEN pj.members ELSE <<>>
        r == MapLookup(members, "read")
        w == MapLookup(members, "write")
        d == MapLookup(members, "delete")
        IsBool(v) == Deref(v) \in {JSONTrue, JSONFalse}
    IN  IF pj.kind = "number" THEN [status |-> "error", p |-> NoPermissions]
        ELSE IF \E v \in {r, w, d} : ~IsNil(v) /\ ~IsBool(v) THEN [status |-> "panic", p |-> NoPermissions]
        ELSE [status |-> "ok",
              p |-> [Read |-> IF IsNil(r) THEN TRUE ELSE Deref(r) = JSONTrue,
                     Write |-> IF IsNil(w) THEN FALSE ELSE Deref(w) = JSONTrue,
                     Delete |-> IF IsNil(d) THEN FALSE ELSE Deref(d) = JSONTrue]]

\* decoding one element of "apps" into a KintoneAppConfig: without a
\* "permissions" entry the field keeps its zero value
Old_UnmarshalApp(raw) ==
    IF raw.permissions.kind = "absent"
    THEN [status |-> "ok", app |-> [ID |-> raw.id, Permissions |-> NoPermissions]]
    ELSE LET u == Old_UnmarshalPermissions(raw.permissions)
         IN  [status |-> u.status, app |-> [ID |-> raw.id, Permissions |-> u.p]]

\* how decoding the settings file ends: at the first app that does not
\* decode, if any
Old_DecodeStatus(c) ==
    IF \E i \in 1..Len(c.apps) : Old_UnmarshalApp(c.apps[i]).status # "ok"
    THEN Old_UnmarshalApp(c.apps[CHOOSE i \in 1..Len(c.apps) :
                                    /\ Old_UnmarshalApp(c.apps[i]).status # "ok"
                                    /\ \A j \in 1..(i - 1) : Old_UnmarshalApp(c.apps[j]).status = "ok"]).status
    ELSE "ok"

\* main(): the KintoneHandlers built from the settings file
Old_Handlers(c) ==
    [NoHandlers EXCEPT
        !.URL = c.url,
        !.Auth = "base64(" \o c.username \o ":" \o c.password \o ")",
        !.Token = c.token,
        !.Apps = [i \in 1..Len(c.apps) |-> Old_UnmarshalApp(c.apps[i]).app]]

\* KintoneHandlers.getApp
Old_getApp(hh, id) ==
    IF \E i \in 1..Len(hh.Apps) : hh.Apps[i].ID = id
    THEN Ptr(hh.Apps[CHOOSE i \in 1..Len(hh.Apps) :
                        hh.Apps[i].ID = id /\ \A j \in 1..(i - 1) : hh.Apps[j].ID # id])
    ELSE Nil

Old_NotFoundMsg(id) == "App ID " \o ToString(id) \o " is not found or not allowed to access"
Old_DeniedMsg(p, id) == "Permission denied to " \o p \o " records in app ID " \o ToString(id)

\* KintoneHandlers.checkPermissions(id, p)
Old_checkPermissions(hh, id, p) ==
    LET app == Old_getApp(hh, id)
    IN  IF IsNil(app) THEN Error(InvalidParamsCode, Old_NotFoundMsg(id))
        ELSE IF Cfg_Granted(Deref(app), p) THEN NoErr
        ELSE Error(InvalidParamsCode, Old_DeniedMsg(p, id))

\* SendHTTP: the body is always marshalled (nil as JSON null) and the three
\* headers are always set; the answer is decoded when a result is wanted
Old_SendHTTP(hh, method, path, query, wantResult, params, resp) ==
    LET req == [method |-> method, path |-> path, query |-> query, body |-> TRUE,
                ctype |-> "application/json",
                params |-> params, auth |-> hh.Auth, token |-> hh.Token,
                status |-> resp.status]
    IN  IF resp.status = 0
        THEN [req |-> req, err |-> Error(InternalErrorCode, "Failed to send HTTP request to kintone server")]
        ELSE IF resp.status # StatusOK
        THEN [req |-> req, err |-> Error(InternalErrorCode, "kintone server returned an error")]
        ELSE IF wantResult /\ ~resp.decodable
        THEN [req |-> req, err |-> Error(InternalErrorCode, "Failed to parse kintone server's response")]
        ELSE [req |-> req, err |-> NoErr]

Old_ParseArgumentsMsg == "Failed to parse arguments"

\* a ToolsCall that hands on the payload the handler built next to its error
Old_Return_PayloadWins(f, payload) == Ret(<<f.req>>, payload)

\* what a handler returns after its request, as ToolsCall hands it on: the
\* handler may build its payload next to the error (CreateRecord does), and
\* ToolsCall returns the error alone when there is one
Old_Return(f, payload) == IF IsErr(f.err) THEN Ret(<<f.req>>, f.err) ELSE Ret(<<f.req>>, payload)

\* KintoneHandlers.ListApps: the configured apps, without a request
Old_ListApps(hh, a, rs) ==
    Ret(<<>>, [Content EXCEPT !.apps = [i \in 1..Len(hh.Apps) |-> hh.Apps[i].ID]])

\* KintoneHandlers.ReadAppInfo
Old_ReadAppInfo(hh, a, rs) ==
    IF a.bad THEN Ret(<<>>, Error(InvalidParamsCode, Old_ParseArgumentsMsg))
    ELSE IF a.appID = 0
    THEN Ret(<<>>, Error(InvalidParamsCode, "Argument 'appID' is required"))
    ELSE IF IsErr(Old_checkPermissions(hh, a.appID, PermSomething))
    THEN Ret(<<>>, Old_checkPermissions(hh, a.appID, PermSomething))
    ELSE Old_Return(Old_SendHTTP(hh, "GET", "/k/v1/app/form/fields.json", TRUE, TRUE,
                                 [NoParams EXCEPT !.app = a.appID], rs[1]),
                    Content)

\* KintoneHandlers.CreateRecord
Old_CreateRecord(hh, a, rs) ==
    IF a.bad THEN Ret(<<>>, Error(InvalidParamsCode, Old_ParseArgumentsMsg))
    ELSE IF a.appID = 0 \/ ~a.record
    THEN Ret(<<>>, Error(InvalidParamsCode, "Arguments 'appID' and 'record' are required"))
    ELSE IF IsErr(Old_checkPermissions(hh, a.appID, PermWrite))
    THEN Ret(<<>>, Old_checkPermissions(hh, a.appID, PermWrite))
    ELSE Old_Return(Old_SendHTTP(hh, "POST", "/k/v1/record.json", FALSE, TRUE,
                                 [NoParams EXCEPT !.app = a.appID], rs[1]),
                    [Content EXCEPT !.success = TRUE])

\* the int a JSON number, or its absence, decodes to
IntOrZero(p) == IF IsNil(p) THEN 0 ELSE Deref(p)

\* KintoneHandlers.ReadRecords: a limit of 0, given or omitted, means 10
Old_ReadRecords(hh, a, rs) ==
    IF a.bad THEN Ret(<<>>, Error(InvalidParamsCode, Old_ParseArgumentsMsg))
    ELSE IF a.appID = 0
    THEN Ret(<<>>, Error(InvalidParamsCode, "Argument 'appID' is required"))
    ELSE IF IntOrZero(a.limit) < 0 \/ IntOrZero(a.limit) > ReadRecordsMaxLimit
    THEN Ret(<<>>, Error(InvalidParamsCode, "Limit must be between 1 and 500"))
    ELSE IF a.offset < 0 \/ a.offset > ReadRecordsMaxOffset
    THEN Ret(<<>>, Error(InvalidParamsCode, "Offset must be between 0 and 10000"))
    ELSE IF IsErr(Old_checkPermissions(hh, a.appID, PermRead))
    THEN Ret(<<>>, Old_checkPermissions(hh, a.appID, PermRead))
    ELSE
    LET limit == IF IntOrZero(a.limit) = 0 THEN ReadRecordsDefaultLimit ELSE IntOrZero(a.limit)
    IN  Old_Return(Old_SendHTTP(hh, "GET", "/k/v1/records.json", FALSE, TRUE,
                                [NoParams EXCEPT !.app = a.appID, !.limit = limit, !.offset = a.offset], rs[1]),
                   Content)

\* KintoneHandlers.UpdateRecord
Old_UpdateRecord(hh, a, rs) ==
    IF a.bad THEN Ret(<<>>, Error(InvalidParamsCode, Old_ParseArgumentsMsg))
    ELSE IF a.appID = 0 \/ a.recordID = "" \/ ~a.record
    THEN Ret(<<>>, Error(InvalidParamsCode, "Arguments 'appID', 'recordID', and 'record' are required"))
    ELSE IF IsErr(Old_checkPermissions(hh, a.appID, PermWrite))
    THEN Ret(<<>>, Old_checkPermissions(hh, a.appID, PermWrite))
    ELSE Old_Return(Old_SendHTTP(hh, "PUT", "/k/v1/record.json", FALSE, TRUE,
                                 [NoParams EXCEPT !.app = a.appID, !.rec = a.recordID], rs[1]),
                    [Content EXCEPT !.success = TRUE])

\* KintoneHandlers.readSingleRecord
Old_readSingleRecord(hh, appID, recordID, resp) ==
    Old_SendHTTP(hh, "GET", "/k/v1/record.json", TRUE, TRUE,
                 [NoParams EXCEPT !.app = appID, !.rec = recordID], resp)

\* KintoneHandlers.DeleteRecord
Old_DeleteRecord(hh, a, rs) ==
    IF a.bad THEN Ret(<<>>, Error(InvalidParamsCode, ParseParamsMsg))
    ELSE IF a.appID = 0 \/ a.recordID = ""
    THEN Ret(<<>>, Error(InvalidParamsCode, "Arguments 'appID' and 'recordID' are required"))
    ELSE IF IsErr(Old_checkPermissions(hh, a.appID, PermDelete))
    THEN Ret(<<>>, Old_checkPermissions(hh, a.appID, PermDelete))
    ELSE
    LET readBack == ~IsErr(Old_checkPermissions(hh, a.appID, PermRead))
        f1 == Old_readSingleRecord(hh, a.appID, a.recordID, rs[1])
        pre == IF readBack THEN <<f1.req>> ELSE <<>>
        f2 == Old_SendHTTP(hh, "DELETE", "/k/v1/records.json", TRUE, FALSE,
                           [NoParams EXCEPT !.app = a.appID, !.rec = a.recordID], rs[2])
    IN  IF readBack /\ IsErr(f1.err) THEN Ret(pre, f1.err)
        ELSE IF IsErr(f2.err) THEN Ret(pre \o <<f2.req>>, f2.err)
        ELSE Ret(pre \o <<f2.req>>, [Content EXCEPT !.success = TRUE, !.deletedRecord = readBack])

\* KintoneHandlers.ToolsCall
Old_ToolsCall(hh, f, rs) ==
    IF f.badParams THEN Ret(<<>>, Error(InvalidParamsCode, ParseParamsMsg))
    ELSE CASE f.tool = "listApps" -> Old_ListApps(hh, f.args, rs)
           [] f.tool = "readAppInfo" -> Old_ReadAppInfo(hh, f.args, rs)
           [] f.tool = "createRecord" -> Old_CreateRecord(hh, f.args, rs)
           [] f.tool = "readRecords" -> Old_ReadRecords(hh, f.args, rs)
           [] f.tool = "updateRecord" -> Old_UpdateRecord(hh, f.args, rs)
           [] f.tool = "deleteRecord" -> Old_DeleteRecord(hh, f.args, rs)
           [] OTHER -> Ret(<<>>, Error(InvalidParamsCode, "Unknown tool name"))

\* KintoneHandlers.ToolsList: the names of the tools it returns
Old_ToolsList ==
    {"listApps", "readAppInfo", "createRecord", "readRecords", "updateRecord", "deleteRecord"}

\* the methods main() registers a handler for
Old_Methods == {"initialize", "notifications/initialized", "ping", "tools/list", "tools/call"}

\* the handler of a registered method: IgnoreHandler returns (nil, nil), the
\* others a result or an error
Old_Handler(hh, f, rs) ==
    CASE f.method = "notifications/initialized" -> Ret(<<>>, NoOutcome)
      [] f.method = "tools/call" -> Old_ToolsCall(hh, f, rs)
      [] OTHER -> Ret(<<>>, Content)

ErrorFrame(id, code) == [id |-> id, kind |-> "error", code |-> code]
ResultFrame(id) == [id |-> id, kind |-> "result", code |-> 0]

\* one turn of RPCServer.Serve after a message was read: the frames it
\* writes, with what the handler did
Old_Serve(hh, f, rs) ==
    IF f.method \notin Old_Methods
    THEN [wrote |-> IF IsNil(f.id) THEN <<>> ELSE <<ErrorFrame(f.id, MethodNotFoundCode)>>,
          reqs |-> <<>>, out |-> NoOutcome]
    ELSE LET r == Old_Handler(hh, f, rs)
         IN  [wrote |-> IF IsErr(r.out) THEN <<ErrorFrame(f.id, r.out.code)>>
                        ELSE IF r.out.kind = "result" THEN <<ResultFrame(f.id)>>
                        ELSE <<>>,
              reqs |-> r.reqs, out |-> r.out]

\* main(): decode the settings file (exit status 1 on an error, 2 when the
\* decoder panics), check the credentials and the apps, then serve
Old_Startup ==
    /\ phase = "boot"
    /\ IF Old_DecodeStatus(conf) = "panic"
       THEN /\ phase' = "exited"
            /\ exitCode' = 2
            /\ h' = h
       ELSE IF \/ Old_DecodeStatus(conf) = "error"
               \/ (conf.username = "" \/ conf.password = "") /\ conf.token = ""
               \/ Len(conf.apps) = 0
       THEN /\ phase' = "exited"
            /\ exitCode' = 1
            /\ h' = h
       ELSE /\ phase' = "serving"
            /\ exitCode' = exitCode
            /\ h' = Old_Handlers(conf)
    /\ UNCHANGED <<env, conf, call, reqs, outcome, files, frame, wrote, pc, pending, trace>>

\* the server is blocked in conn.Read()
Old_Idle == phase = "serving" /\ frame = NoFrame

\* Serve reads the message f and handles it to the end
Old_Recv(f, rs) ==
    /\ phase = "serving"
    /\ frame = NoFrame
    /\ \E r \in {Old_Serve(h, f, rs)} :
           /\ frame' = f
           /\ wrote' = r.wrote
           /\ reqs' = r.reqs
           /\ outcome' = r.out
    /\ UNCHANGED <<phase, exitCode, env, conf, h, call, files, pc, pending, trace>>

\* the ids a message may carry: none, or a number
FrameIDs == {Nil, Ptr(1)}

Old_NoArgs == [NoArgs EXCEPT !.appID = 0]
Old_BadArgs == [Old_NoArgs EXCEPT !.bad = TRUE]
Old_ArgAppIDs == 0..NumApps

Frame(id, method) == [NoFrame EXCEPT !.id = id, !.method = method, !.args = Old_NoArgs]
CallFrame(id, tool, a) == [Frame(id, "tools/call") EXCEPT !.tool = tool, !.args = a]

Old_RecvInitialize ==
    /\ Old_Idle
    /\ \E id \in FrameIDs : Old_Recv(Frame(id, "initialize"), <<OKResp, OKResp>>)

Old_RecvInitialized ==
    /\ Old_Idle
    /\ \E id \in FrameIDs : Old_Recv(Frame(id, "notifications/initialized"), <<OKResp, OKResp>>)

Old_RecvPing ==
    /\ Old_Idle
    /\ \E id \in FrameIDs : Old_Recv(Frame(id, "ping"), <<OKResp, OKResp>>)

Old_RecvToolsList ==
    /\ Old_Idle
    /\ \E id \in FrameIDs : Old_Recv(Frame(id, "tools/list"), <<OKResp, OKResp>>)

Old_RecvUnknownMethod ==
    /\ Old_Idle
    /\ \E id \in FrameIDs : Old_Recv(Frame(id, "resources/list"), <<OKResp, OKResp>>)

Old_RecvBadToolsCall ==
    /\ Old_Idle
    /\ \E id \in FrameIDs :
           Old_Recv([Frame(id, "tools/call") EXCEPT !.badParams = TRUE], <<OKResp, OKResp>>)

Old_RecvUnknownTool ==
    /\ Old_Idle
    /\ \E id \in FrameIDs : Old_Recv(CallFrame(id, "dropDatabase", Old_NoArgs), <<OKResp, OKResp>>)

Old_RecvListApps ==
    /\ Old_Idle
    /\ \E id \in FrameIDs, a \in {Old_BadArgs, Old_NoArgs} :
           Old_Recv(CallFrame(id, "listApps", a), <<OKResp, OKResp>>)

Old_RecvReadAppInfo ==
    /\ Old_Idle
    /\ \E id \in FrameIDs, r1 \in Responses,
          a \in {Old_BadArgs} \cup {[Old_NoArgs EXCEPT !.appID = app] : app \in Old_ArgAppIDs} :
           Old_Recv(CallFrame(id, "readAppInfo", a), <<r1, OKResp>>)

Old_RecvCreateRecord ==
    /\ Old_Idle
    /\ \E id \in FrameIDs, r1 \in Responses,
          a \in {Old_BadArgs} \cup {[Old_NoArgs EXCEPT !.appID = app, !.record = rec] :
                                       app \in Old_ArgAppIDs, rec \in BOOLEAN} :
           Old_Recv(CallFrame(id, "createRecord", a), <<r1, OKResp>>)

Old_RecvReadRecords ==
    /\ Old_Idle
    /\ \E id \in FrameIDs, r1 \in Responses,
          a \in {Old_BadArgs} \cup {[Old_NoArgs EXCEPT !.appID = app, !.limit = l, !.offset = o] :
                                       app \in Old_ArgAppIDs, l \in ArgLimits(ReadRecordsMaxLimit),
                                       o \in {-1, 0, ReadRecordsMaxOffset, ReadRecordsMaxOffset + 1}} :
           Old_Recv(CallFrame(id, "readRecords", a), <<r1, OKResp>>)

Old_RecvUpdateRecord ==
    /\ Old_Idle
    /\ \E id \in FrameIDs, r1 \in Responses,
          a \in {Old_BadArgs} \cup {[Old_NoArgs EXCEPT !.appID = app, !.recordID = rid, !.record = rec] :
                                       app \in Old_ArgAppIDs, rid \in ArgRecordIDs, rec \in BOOLEAN} :
           Old_Recv(CallFrame(id, "updateRecord", a), <<r1, OKResp>>)

Old_RecvDeleteRecord ==
    /\ Old_Idle
    /\ \E id \in FrameIDs, r1 \in Responses, r2 \in Responses,
          a \in {Old_BadArgs} \cup {[Old_NoArgs EXCEPT !.appID = app, !.recordID = rid] :
                                       app \in Old_ArgAppIDs, rid \in ArgRecordIDs} :
           Old_Recv(CallFrame(id, "deleteRecord", a), <<r1, r2>>)

\* the input ends: Serve returns nil and main returns
Old_RecvEOF ==
    /\ Old_Idle
    /\ phase' = "exited"
    /\ exitCode' = 0
    /\ UNCHANGED <<env, conf, h, call, reqs, outcome, files, frame, wrote, pc, pending, trace>>

\* the input does not decode as a message: Serve returns the error and main
\* exits with status 1
Old_RecvGarbage ==
    /\ Old_Idle
    /\ phase' = "exited"
    /\ exitCode' = 1
    /\ UNCHANGED <<env, conf, h, call, reqs, outcome, files, frame, wrote, pc, pending, trace>>

\* Serve loops back to conn.Read(); nothing of the handled message is kept
Old_Loop ==
    /\ phase = "serving"
    /\ frame # NoFrame
    /\ frame' = NoFrame
    /\ wrote' = <<>>
    /\ reqs' = <<>>
    /\ outcome' = NoOutcome
    /\ UNCHANGED <<phase, exitCode, env, conf, h, call, files, pc, pending, trace>>

\* the settings files of the first server: numeric app IDs
Old_RawApps == [id : 1..NumApps, permissions : PermJSONs]
Old_Configurations ==
    {c \in [username : {"", "u"}, password : {"", "p"}, token : {"", "t"},
            url : {BaseURL}, apps : SeqsUpTo(Old_RawApps, MaxList)] :
        /\ (c.username = "") = (c.password = "")
        /\ \A i, j \in 1..Len(c.apps) : i # j => c.apps[i].id # c.apps[j].id}

InitRPC ==
    /\ InitCommon
    /\ phase = "boot"
    /\ env = NoEnv
    /\ conf \in Old_Configurations
    /\ h = NoHandlers

NextRPC ==
    \/ Old_Startup
    \/ Old_RecvInitialize
    \/ Old_RecvInitialized
    \/ Old_RecvPing
    \/ Old_RecvToolsList
    \/ Old_RecvUnknownMethod
    \/ Old_RecvBadToolsCall
    \/ Old_RecvUnknownTool
    \/ Old_RecvListApps
    \/ Old_RecvReadAppInfo
    \/ Old_RecvCreateRecord
    \/ Old_RecvReadRecords
    \/ Old_RecvUpdateRecord
    \/ Old_RecvDeleteRecord
    \/ Old_RecvEOF
    \/ Old_RecvGarbage
    \/ Old_Loop

SpecRPC == InitRPC /\ [][NextRPC]_vars

\* the settings files with a token and the one app 1, with any "permissions"
\* entry
Call_Configurations ==
    {[username |-> "", password |-> "", token |-> "t", url |-> BaseURL,
      apps |-> <<[id |-> 1, permissions |-> p]>>] : p \in PermJSONs}

\* the first server started with one of them
InitCalls ==
    /\ InitCommon
    /\ phase = "boot"
    /\ env = NoEnv
    /\ conf \in Call_Configurations
    /\ h = NoHandlers

SpecCalls == InitCalls /\ [][NextRPC]_vars

----------------------------------------------------------------------------
(* RPCServer.Serve of src/unnamed/part_005, one step of the loop at a time *)

\* an event of the history: the n-th frame was read, a backend request of
\* its handler was sent and answered ("http"), a frame answering it was
\* written, its turn of the loop ended; or the read hit the end of the
\* input ("eof") or failed ("readerr")
Event(ev, n) == [ev |-> ev, n |-> n]

\* how many frames Serve has read
NumRead == Cardinality({i \in 1..Len(trace) : trace[i].ev = "read"})
NumEnded == Cardinality({i \in 1..Len(trace) : trace[i].ev = "end"})

\* a Serve that starts each handler in the background and reads on
Ser_CanRead_WhileHandling == pc \in {"read", "handle"}

\* Serve calls conn.Read() only at the top of its for loop
Ser_CanRead == pc = "read"

\* an exit that reports the end of the input like any other read error
Old_ServeExit_EOFIsError(err) == 1

\* the exit status of main() once conn.Read() failed with err: Serve
\* returns nil for io.EOF and the error otherwise; main exits with status 1
\* on an error
Old_ServeExit(err) == IF err = "EOF" THEN 0 ELSE 1

\* the frames of a run: notifications and requests, answered by a handler
\* or not, and deletions that take up to two backend requests
Ser_Frames ==
    {Frame(id, m) : id \in FrameIDs, m \in {"ping", "notifications/initialized", "resources/list"}}
      \cup {CallFrame(id, "deleteRecord", [Old_NoArgs EXCEPT !.appID = 1, !.recordID = rid]) :
               id \in FrameIDs, rid \in ArgRecordIDs}

Ser_Responses == {OKResp, Resp(500, TRUE, <<>>)}

\* settings with one app that may be read and deleted from
Ser_Configurations ==
    {[username |-> "", password |-> "", token |-> t, url |-> BaseURL,
      apps |-> <<[id |-> 1, permissions |-> [kind |-> "object", members |-> ms]]>>] :
        t \in {"", "t"},
        ms \in {<<>>, <<[key |-> "delete", value |-> JSONTrue]>>}}

\* conn.Read() returns a message: its handler starts
Ser_Read ==
    /\ phase = "serving"
    /\ Ser_CanRead
    /\ NumRead < MaxFrames
    /\ \E f \in Ser_Frames, r1 \in Ser_Responses, r2 \in Ser_Responses :
           /\ frame' = f
           /\ pending' = Old_Serve(h, f, <<r1, r2>>)
    /\ reqs' = <<>>
    /\ wrote' = <<>>
    /\ outcome' = NoOutcome
    /\ trace' = Append(trace, Event("read", NumRead + 1))
    /\ pc' = "handle"
    /\ UNCHANGED <<phase, exitCode, env, conf, h, call, files>>

\* the handler sends its next backend request and gets the answer
Ser_Backend ==
    /\ phase = "serving"
    /\ pc = "handle"
    /\ pending.reqs # <<>>
    /\ reqs' = Append(reqs, Head(pending.reqs))
    /\ pending' = [pending EXCEPT !.reqs = Tail(@)]
    /\ trace' = Append(trace, Event("http", NumRead))
    /\ UNCHANGED <<phase, exitCode, env, conf, h, call, outcome, files, frame, wrote, pc>>

\* the handler returns its result or its error to Serve
Ser_Return ==
    /\ phase = "serving"
    /\ pc = "handle"
    /\ pending.reqs = <<>>
    /\ outcome' = pending.out
    /\ pc' = "write"
    /\ UNCHANGED <<phase, exitCode, env, conf, h, call, reqs, files, frame, wrote, pending, trace>>

\* Serve writes the answer, if there is one, and goes back to conn.Read()
Ser_Write ==
    /\ phase = "serving"
    /\ pc = "write"
    /\ wrote' = pending.wrote
    /\ trace' = trace \o [i \in 1..Len(pending.wrote) |-> Event("write", NumRead)]
                      \o <<Event("end", NumRead)>>
    /\ pending' = NoPending
    /\ pc' = "read"
    /\ UNCHANGED <<phase, exitCode, env, conf, h, call, reqs, outcome, files, frame>>

\* conn.Read() returns io.EOF: Serve returns nil and main returns
Ser_EOF ==
    /\ phase = "serving"
    /\ Ser_CanRead
    /\ phase' = "exited"
    /\ exitCode' = Old_ServeExit("EOF")
    /\ trace' = Append(trace, Event("eof", NumRead))
    /\ UNCHANGED <<env, conf, h, call, reqs, outcome, files, frame, wrote, pc, pending>>

\* conn.Read() fails in another way (the input is not JSON, or not a
\* message): Serve returns the error and main exits
Ser_ReadError ==
    /\ phase = "serving"
    /\ Ser_CanRead
    /\ phase' = "exited"
    /\ exitCode' = Old_ServeExit("decode")
    /\ trace' = Append(trace, Event("readerr", NumRead))
    /\ UNCHANGED <<env, conf, h, call, reqs, outcome, files, frame, wrote, pc, pending>>

InitSerial ==
    /\ InitCommon
    /\ phase = "boot"
    /\ env = NoEnv
    /\ conf \in Ser_Configurations
    /\ h = NoHandlers

NextSerial ==
    \/ Old_Startup
    \/ Ser_Read
    \/ Ser_Backend
    \/ Ser_Return
    \/ Ser_Write
    \/ Ser_EOF
    \/ Ser_ReadError

SpecSerial == InitSerial /\ [][NextSerial]_vars

----------------------------------------------------------------------------
(* downloadAttachmentFile of src/main.go, called again and again on one
   download directory *)

\* the file names the backend may give in Content-Disposition
Dl_FileNames ==
    {<<"a", ".", "t">>, Numbered(<<"a">>, 1, <<".", "t">>), <<"a">>}

\* what may lie in the download directory when the server starts
Dl_Directories == SUBSET {<<"a", ".", "t">>, Numbered(<<"a">>, 1, <<".", "t">>)}

\* how the backend and the disk may answer one download; the attachment
\* named "a" is empty, the others have some bytes
Dl_Responses ==
    {[OKResp EXCEPT !.fileName = n, !.openFails = o, !.copyFails = c, !.size = Len(n) - 1] :
        n \in Dl_FileNames, o \in BOOLEAN, c \in BOOLEAN}
    \cup {Resp(500, TRUE, <<>>)}

\* the arguments of every download: the key of some attachment
Dl_Args == [NoArgs EXCEPT !.fileKey = <<"k">>]

\* the number of calls of downloadAttachmentFile so far
NumDownloads == Len(trace)

\* one call of downloadAttachmentFile; the history keeps the name the backend
\* gave, the directory before and after, the path the handler reported, the
\* length of the body, and whether io.Copy failed on the created file
Dl_Download ==
    /\ Idle
    /\ NumDownloads < MaxDownloads
    /\ \E rsp \in Dl_Responses :
          \E r \in {ToolsCall(h, "downloadAttachmentFile", Dl_Args, <<rsp, OKResp>>, files)} :
              /\ call' = [name |-> "downloadAttachmentFile", args |-> Dl_Args]
              /\ reqs' = r.reqs
              /\ outcome' = r.out
              /\ files' = r.files
              /\ trace' = Append(trace, [name |-> rsp.fileName, before |-> files,
                                         after |-> r.files, path |-> r.out.filePath,
                                         saved |-> r.out.success,
                                         body |-> rsp.size,
                                         copyFailed |-> /\ rsp.status = StatusOK
                                                        /\ ~rsp.openFails /\ rsp.copyFails])
    /\ UNCHANGED <<phase, exitCode, env, conf, h, frame, wrote, pc, pending>>

InitDownload ==
    /\ exitCode = 0
    /\ call = NoCall
    /\ reqs = <<>>
    /\ outcome = NoOutcome
    /\ files \in Dl_Directories
    /\ frame = NoFrame
    /\ wrote = <<>>
    /\ pc = "read"
    /\ pending = NoPending
    /\ trace = <<>>
    /\ phase = "serving"
    /\ env = NoEnv
    /\ conf = NoConf
    /\ h = [NoHandlers EXCEPT !.URL = BaseURL, !.Token = "t"]

NextDownload == Dl_Download \/ Respond

SpecDownload == InitDownload /\ [][NextDownload]_vars

----------------------------------------------------------------------------
(* The documented contract of the tools, stated without the handlers *)

\* the global allow/deny policy: deny wins, an empty allow list allows all
Permitted(hh, id) ==
    id \notin Range(hh.Deny) /\ (hh.Allow = <<>> \/ id \in Range(hh.Allow))

InRange(l, lo, hi) == Deref(l) >= lo /\ Deref(l) <= hi

ValidMentions(ms) ==
    \A i \in 1..Len(ms) : ms[i].code # "" /\ ms[i].type \in MentionTypes \cup {""}

\* the arguments are ones every reading of the contract accepts
WellFormed(c) ==
    /\ ~c.args.bad
    /\ CASE c.name = "listApps" ->
                c.args.offset >= 0 /\ (IsNil(c.args.limit) \/ InRange(c.args.limit, 1, ListAppsMaxLimit))
         [] c.name = "readAppInfo" -> c.args.appID # ""
         [] c.name = "createRecord" -> c.args.appID # "" /\ c.args.record
         [] c.name = "readRecords" ->
                /\ c.args.appID # ""
                /\ IsNil(c.args.limit) \/ InRange(c.args.limit, 1, ReadRecordsMaxLimit)
                /\ c.args.offset >= 0 /\ c.args.offset <= ReadRecordsMaxOffset
         [] c.name = "updateRecord" -> c.args.appID # "" /\ c.args.recordID # "" /\ c.args.record
         [] c.name = "deleteRecord" -> c.args.appID # "" /\ c.args.recordID # ""
         [] c.name = "downloadAttachmentFile" -> c.args.fileKey # <<>>
         [] c.name = "uploadAttachmentFile" -> IsNil(c.args.path) # IsNil(c.args.content)
         [] c.name = "readRecordComments" ->
                /\ c.args.appID # "" /\ c.args.recordID # ""
                /\ c.args.order \in {"", "asc", "desc"}
                /\ c.args.offset >= 0
                /\ IsNil(c.args.limit) \/ InRange(c.args.limit, 1, CommentsMaxLimit)
         [] c.name = "createRecordComment" ->
                /\ c.args.appID # "" /\ c.args.recordID # "" /\ c.args.text # ""
                /\ ValidMentions(c.args.mentions)
         [] OTHER -> FALSE

\* the arguments fail validation: unparsable, a required field missing, a
\* number out of its range, a bad enum value, or a violated exclusivity
Invalid(c) ==
    \/ c.args.bad
    \/ CASE c.name = "listApps" ->
                c.args.offset < 0 \/ (~IsNil(c.args.limit) /\ ~InRange(c.args.limit, 1, ListAppsMaxLimit))
         [] c.name = "readAppInfo" -> c.args.appID = ""
         [] c.name = "createRecord" -> c.args.appID = "" \/ ~c.args.record
         [] c.name = "readRecords" ->
                \/ c.args.appID = ""
                \/ ~IsNil(c.args.limit) /\ ~InRange(c.args.limit, 0, ReadRecordsMaxLimit)
                \/ c.args.offset < 0 \/ c.args.offset > ReadRecordsMaxOffset
         [] c.name = "updateRecord" -> c.args.appID = "" \/ c.args.recordID = "" \/ ~c.args.record
         [] c.name = "deleteRecord" -> c.args.appID = "" \/ c.args.recordID = ""
         [] c.name = "downloadAttachmentFile" -> c.args.fileKey = <<>>
         [] c.name = "uploadAttachmentFile" -> IsNil(c.args.path) = IsNil(c.args.content)
         [] c.name = "readRecordComments" ->
                \/ c.args.appID = "" \/ c.args.recordID = ""
                \/ c.args.order \notin {"", "asc", "desc"}
                \/ c.args.offset < 0
                \/ ~IsNil(c.args.limit) /\ ~InRange(c.args.limit, 0, CommentsMaxLimit)
         [] c.name = "createRecordComment" ->
                \/ c.args.appID = "" \/ c.args.recordID = "" \/ c.args.text = ""
                \/ ~ValidMentions(c.args.mentions)
         [] OTHER -> FALSE

\* the access-control check refuses the call
Denied(hh, c) ==
    c.name \in AppTools /\ c.args.appID # "" /\ ~Permitted(hh, c.args.appID)

IsInvalidParams(o) == o.kind = "error" /\ o.code = InvalidParamsCode

----------------------------------------------------------------------------
(* Claims about the global allow/deny policy (src/main.go) *)

\* C1: every app ID in the deny list is refused by checkPermissions, whatever
\* the allow list holds, with the message that names the deny list; a tool
\* call on such an app returns that error and sends nothing to the backend.
C1_DenyOverridesAllow ==
    /\ \A id \in AppIDs :
          Contains(h.Deny, id) => checkPermissions(h, id) = Error(InvalidParamsCode, DenyListedMsg(id))
    /\ (call.name \in AppTools /\ WellFormed(call) /\ call.args.appID \in Range(h.Deny))
          => (outcome = Error(InvalidParamsCode, DenyListedMsg(call.args.appID)) /\ reqs = <<>>)

\* a call on an app that is in both lists was refused for the deny list
C1_Witness ==
    /\ call.name \in AppTools /\ WellFormed(call)
    /\ call.args.appID \in Range(h.Deny) \cap Range(h.Allow)
    /\ outcome.msg = DenyListedMsg(call.args.appID)

\* C2: checkPermissions permits an app exactly when it is not in the deny
\* list and the allow list is empty or holds it; an app outside a non-empty
\* allow list is refused with the allow-list message, which is not the
\* deny-list message; a well-formed call reaches the backend exactly when
\* its app is permitted.
C2_PermittedIff ==
    /\ \A id \in AppIDs : (checkPermissions(h, id) = NoErr) <=> Permitted(h, id)
    /\ \A id \in AppIDs :
          (h.Allow # <<>> /\ id \notin Range(h.Allow) /\ id \notin Range(h.Deny))
              => checkPermissions(h, id) = Error(InvalidParamsCode, NotAllowListedMsg(id))
    /\ \A id \in AppIDs : NotAllowListedMsg(id) # DenyListedMsg(id)
    /\ (call.name \in AppTools /\ WellFormed(call))
          => (Permitted(h, call.args.appID) <=> reqs # <<>>)

\* with an empty allow list and a non-empty deny list, a call on an app that
\* is not denied went to the backend
C2_Witness ==
    /\ call.name \in AppTools /\ WellFormed(call)
    /\ h.Allow = <<>> /\ h.Deny # <<>> /\ call.args.appID \notin Range(h.Deny)
    /\ reqs # <<>>

\* C3: in a server started from environment variables, an app-scoped tool
\* call on an app listed in KINTONE_DENY_APPS is rejected and sends nothing
\* to the backend.
C3_EnvDenyListEnforced ==
    (phase = "serving" /\ call.name \in AppTools
        /\ Contains(GetenvList(env.denyApps), call.args.appID))
      => (IsInvalidParams(outcome) /\ reqs = <<>>)

\* C9: a call that fails argument validation or the access-control check
\* returns an invalid-params error and sent no backend request.
C9_RejectedBeforeBackend ==
    (call # NoCall /\ (Invalid(call) \/ Denied(h, call)))
      => (IsInvalidParams(outcome) /\ reqs = <<>>)

\* a parsable readRecords call that names an app was rejected, for its
\* arguments or for its app, with an invalid-params error
C9_Witness ==
    /\ call # NoCall /\ ~call.args.bad
    /\ Invalid(call) \/ Denied(h, call)
    /\ call.name = "readRecords" /\ call.args.appID # ""
    /\ IsInvalidParams(outcome)

----------------------------------------------------------------------------
(* Claims about the per-app permission policy (src/unnamed/part_007) *)

\* the app is one of the configured apps
Configured(hh, id) == \E i \in 1..Len(hh.Apps) : hh.Apps[i].ID = id

\* the configuration grants the app the permission
HasPerm(hh, id, p) ==
    \E i \in 1..Len(hh.Apps) :
        /\ hh.Apps[i].ID = id
        /\ \/ p = PermRead /\ hh.Apps[i].Permissions.Read
           \/ p = PermWrite /\ hh.Apps[i].Permissions.Write
           \/ p = PermDelete /\ hh.Apps[i].Permissions.Delete

\* the capability each tool is documented to need
RequiredPerm(name) ==
    CASE name = "readAppInfo" -> PermSomething
      [] name \in {"createRecord", "updateRecord"} -> PermWrite
      [] name \in {"readRecords", "readRecordComments"} -> PermRead
      [] name = "deleteRecord" -> PermDelete

SingleCapabilityTools ==
    {"readAppInfo", "createRecord", "updateRecord", "readRecords", "readRecordComments", "deleteRecord"}

\* C4: checkPermissions(R, C) permits exactly when R is configured and C is
\* granted to it or C is the capability-agnostic check; an app that is not
\* configured is refused for every capability with the not-found message,
\* which differs from the permission-denied message (in the variadic
\* checkPermissions called with one capability, and in the first server's
\* two-argument one); a well-formed call of a tool that needs one
\* capability reaches the backend exactly then. The handlers do not change
\* while serving, so the policy is compared in the states between two calls.
C4_PermittedIffConfiguredAndGranted ==
    /\ Idle => \A id \in AppIDs, p \in Perms :
          (Cfg_checkPermissions(h, id, <<p>>) = NoErr)
              <=> (Configured(h, id) /\ (p = PermSomething \/ HasPerm(h, id, p)))
    /\ Idle => \A id \in AppIDs, p \in Perms :
          ~Configured(h, id) =>
              /\ Cfg_checkPermissions(h, id, <<p>>) = Error(InvalidParamsCode, Cfg_NotFoundMsg(id))
              /\ Cfg_NotFoundMsg(id) # Cfg_DeniedMsg(<<p>>, id)
    /\ Idle => \A id \in AppIDs, p \in Perms :
          /\ (Old_checkPermissions(h, id, p) = NoErr)
                <=> (Configured(h, id) /\ (p = PermSomething \/ HasPerm(h, id, p)))
          /\ ~Configured(h, id) =>
                /\ Old_checkPermissions(h, id, p) = Error(InvalidParamsCode, Old_NotFoundMsg(id))
                /\ Old_NotFoundMsg(id) # Old_DeniedMsg(p, id)
    /\ (call.name \in SingleCapabilityTools /\ WellFormed(call))
          => (reqs # <<>> <=>
                 /\ Configured(h, call.args.appID)
                 /\ \/ RequiredPerm(call.name) = PermSomething
                    \/ HasPerm(h, call.args.appID, RequiredPerm(call.name)))

\* readAppInfo reached the backend for a configured app that has no
\* permission at all
C4_Witness ==
    /\ call.name = "readAppInfo" /\ WellFormed(call)
    /\ Configured(h, call.args.appID)
    /\ \A p \in {PermRead, PermWrite, PermDelete} : ~HasPerm(h, call.args.appID, p)
    /\ reqs # <<>>

RecordPath == "/k/v1/record.json"
RecordsPath == "/k/v1/records.json"
CommentsPath == "/k/v1/record/comments.json"
CommentPath == "/k/v1/record/comment.json"

\* C5: every POST or PUT to the record endpoint is for an app with the write
\* permission, every DELETE to the records endpoint for an app with the
\* delete permission, and every GET of records, of one record or of record
\* comments for an app with the read permission.
C5_RequestsNeedTheirPermission ==
    \A i \in 1..Len(reqs) :
        /\ (reqs[i].method \in {"POST", "PUT"} /\ reqs[i].path = RecordPath)
              => HasPerm(h, reqs[i].params.app, PermWrite)
        /\ (reqs[i].method = "DELETE" /\ reqs[i].path = RecordsPath)
              => HasPerm(h, reqs[i].params.app, PermDelete)
        /\ (reqs[i].method = "GET" /\ reqs[i].path \in {RecordsPath, RecordPath, CommentsPath})
              => HasPerm(h, reqs[i].params.app, PermRead)

\* a record was deleted in an app that may be deleted from but not read:
\* the only request was the DELETE
C5_Witness ==
    /\ call.name = "deleteRecord"
    /\ HasPerm(h, call.args.appID, PermDelete) /\ ~HasPerm(h, call.args.appID, PermRead)
    /\ Len(reqs) = 1 /\ reqs[1].method = "DELETE"
    /\ outcome.success

\* C6: the comment POST of createRecordComment is issued only for an app
\* with both the read and the write permission, and a well-formed call on
\* a configured app lacking either one is denied without a request.
C6_CommentNeedsReadAndWrite ==
    call.name = "createRecordComment" =>
        /\ (\E i \in 1..Len(reqs) : reqs[i].method = "POST" /\ reqs[i].path = CommentPath)
              => (HasPerm(h, call.args.appID, PermRead) /\ HasPerm(h, call.args.appID, PermWrite))
        /\ (WellFormed(call) /\ Configured(h, call.args.appID)
                /\ ~(HasPerm(h, call.args.appID, PermRead) /\ HasPerm(h, call.args.appID, PermWrite)))
              => (IsInvalidParams(outcome) /\ reqs = <<>>)

PermDefault(k) == k = "read"

PermField(P, k) ==
    CASE k = "read" -> P.Read
      [] k = "write" -> P.Write
      [] k = "delete" -> P.Delete

\* what the members of a permissions object say about key k
PermExpected(members, k) ==
    IF \E j \in 1..Len(members) : members[j].key = k
    THEN \E j \in 1..Len(members) : members[j].key = k /\ members[j].value = JSONTrue
    ELSE PermDefault(k)

\* the same members written in another order: the last first, and reversed
Rotate(o) == IF o = <<>> THEN o ELSE <<o[Len(o)]>> \o SubSeq(o, 1, Len(o) - 1)
Reverse(o) == [i \in 1..Len(o) |-> o[Len(o) + 1 - i]]

AllBoolean(o) == \A j \in 1..Len(o) : o[j].value \in {JSONTrue, JSONFalse}

ObjectJSON(o) == [kind |-> "object", members |-> o]

\* C7: decoding a permissions object gives, for each key, the boolean
\* written for it, or read=true, write=false, delete=false when the key is
\* absent, independently per key and whatever the order of the members
\* (rotating and reversing them, which generate every order, changes
\* nothing); {} gives read only and {"delete": true} gives read and delete.
\* The apps of a server that started hold the decoded permissions.
C7_PermissionsDecodeWithDefaults ==
    /\ \A i \in 1..Len(conf.apps) :
          LET raw == conf.apps[i]
              o == raw.permissions.members
              d == Cfg_UnmarshalApp(raw)
          IN  (raw.permissions.kind = "object" /\ AllBoolean(o)) =>
                  /\ d.ok
                  /\ \A k \in PermKeys : PermField(d.app.Permissions, k) = PermExpected(o, k)
                  /\ Cfg_UnmarshalApp([raw EXCEPT !.permissions.members = Rotate(o)]) = d
                  /\ Cfg_UnmarshalApp([raw EXCEPT !.permissions.members = Reverse(o)]) = d
                  /\ phase = "serving" => h.Apps[i] = d.app
    /\ Cfg_UnmarshalApp([id |-> "1", permissions |-> ObjectJSON(<<>>)]).app.Permissions
          = [Read |-> TRUE, Write |-> FALSE, Delete |-> FALSE]
    /\ Cfg_UnmarshalApp([id |-> "1", permissions |-> ObjectJSON(<<[key |-> "delete", value |-> JSONTrue]>>)]).app.Permissions
          = [Read |-> TRUE, Write |-> FALSE, Delete |-> TRUE]

\* a server started with an app whose permissions are {"delete": true}, and
\* the app may be read and deleted from but not written
C7_Witness ==
    /\ phase = "serving"
    /\ \E i \in 1..Len(conf.apps) :
          /\ conf.apps[i].permissions = ObjectJSON(<<[key |-> "delete", value |-> JSONTrue]>>)
          /\ h.Apps[i].Permissions = [Read |-> TRUE, Write |-> FALSE, Delete |-> TRUE]

----------------------------------------------------------------------------
(* Claims about the first server (src/unnamed/part_005) *)

\* the message read is a well-formed tools/call of `tool` on the app
WellFormedCallOn(f, tool, id) ==
    /\ f.method = "tools/call" /\ ~f.badParams /\ f.tool = tool
    /\ WellFormed([name |-> tool, args |-> [f.args EXCEPT !.appID = ToString(f.args.appID)]])
    /\ f.args.appID = id

\* C8: an app configured without a "permissions" entry has the read
\* permission and only it: once the server runs, a read of its records
\* reaches the backend, and writes and deletions are denied.
C8_NoPermissionsEntryMeansReadOnly ==
    phase = "serving" =>
        \A i \in 1..Len(conf.apps) :
            conf.apps[i].permissions.kind = "absent" =>
                /\ h.Apps[i].Permissions = [Read |-> TRUE, Write |-> FALSE, Delete |-> FALSE]
                /\ WellFormedCallOn(frame, "readRecords", conf.apps[i].id) => reqs # <<>>
                /\ \A t \in {"createRecord", "updateRecord", "deleteRecord"} :
                      WellFormedCallOn(frame, t, conf.apps[i].id)
                          => (IsInvalidParams(outcome) /\ reqs = <<>>)

\* C10: a message without an id makes Serve write no frame, whatever its
\* method and whatever its handler returns.
C10_NotificationsWriteNothing ==
    (frame # NoFrame /\ IsNil(frame.id)) => wrote = <<>>

----------------------------------------------------------------------------
(* Claims about the loop of RPCServer.Serve (src/unnamed/part_005) *)

Last(s) == s[Len(s)]

\* C11: dispatch is strictly sequential.  At most one frame is being
\* handled; a frame is read only after the turn of the frame before it has
\* ended; every backend request and every written frame of the n-th frame
\* lies between the read of frame n and the end of its turn; and the frames
\* are answered in the order they were read.
C11_DispatchIsSequential ==
    /\ NumRead - NumEnded \in {0, 1}
    /\ (phase = "serving" /\ NumRead = NumEnded) => (pc = "read" /\ pending = NoPending)
    /\ \A i \in 1..Len(trace) :
          /\ trace[i].ev = "read" =>
                /\ trace[i].n = Cardinality({k \in 1..i : trace[k].ev = "read"})
                /\ i > 1 => trace[i - 1] = Event("end", trace[i].n - 1)
          /\ trace[i].ev \in {"http", "write", "end"} =>
                /\ \E k \in 1..(i - 1) : trace[k] = Event("read", trace[i].n)
                /\ \A k \in 1..(i - 1) : trace[k] # Event("end", trace[i].n)
                /\ \A k \in 1..(i - 1) : trace[k].n <= trace[i].n
    /\ \A i, j \in 1..Len(trace) :
          (i < j /\ trace[i].ev = "write" /\ trace[j].ev = "write") => trace[i].n <= trace[j].n
    /\ pc = "write" => Len(reqs) = Cardinality({i \in 1..Len(trace) : trace[i] = Event("http", NumRead)})

\* the first frame took two backend requests and was answered before the
\* second frame, which was answered too, was read
C11_Witness ==
    /\ Len(trace) >= 7
    /\ trace[1] = Event("read", 1) /\ trace[2] = Event("http", 1) /\ trace[3] = Event("http", 1)
    /\ trace[4] = Event("write", 1) /\ trace[5] = Event("end", 1)
    /\ trace[6] = Event("read", 2)
    /\ Last(trace) = Event("end", 2) /\ wrote # <<>>

\* C12: the loop ends with exit status 0 when the input reaches its end,
\* with a non-zero exit status when reading the input fails in any other
\* way, and in no other case.
C12_LoopEndsOnlyOnReadFailure ==
    /\ (trace # <<>> /\ Last(trace).ev = "eof") => (phase = "exited" /\ exitCode = 0)
    /\ (trace # <<>> /\ Last(trace).ev = "readerr") => (phase = "exited" /\ exitCode # 0)
    /\ (phase = "exited" /\ h # NoHandlers) => (trace # <<>> /\ Last(trace).ev \in {"eof", "readerr"})
    /\ \A i \in 1..(Len(trace) - 1) : trace[i].ev \notin {"eof", "readerr"}

\* after a frame was served, the input ended and the process exited with
\* status 0
C12_Witness ==
    /\ Len(trace) > 1
    /\ Last(trace).ev = "eof"
    /\ NumRead > 0
    /\ phase = "exited" /\ exitCode = 0

\* C13: a malformed inbound frame is answered with an error frame whose
\* code is "parse error" or "invalid request", and the server goes on
\* serving.
C13_MalformedFrameAnswered ==
    (trace # <<>> /\ Last(trace).ev = "readerr")
        => /\ phase = "serving"
           /\ \E i \in 1..Len(wrote) :
                 wrote[i].kind = "error" /\ wrote[i].code \in {ParseErrorCode, InvalidRequestCode}

----------------------------------------------------------------------------
(* Claims about single tools *)

\* C14: deleteRecord on an app that may be deleted from.  When the app may
\* also be read, the record is fetched first and a success carries it as
\* deletedRecord; when it may not be read, no record is fetched, the DELETE
\* is still sent and a success carries no deletedRecord.  In the current
\* server, where access is all or nothing, the record is always fetched
\* first.
C14_DeleteReadsBackOnlyWithRead ==
    (call.name = "deleteRecord" /\ WellFormed(call) /\ HasPerm(h, call.args.appID, PermDelete))
      => /\ HasPerm(h, call.args.appID, PermRead) =>
               /\ reqs # <<>>
               /\ reqs[1].method = "GET" /\ reqs[1].path = RecordPath
               /\ reqs[1].params.app = call.args.appID /\ reqs[1].params.rec = call.args.recordID
               /\ outcome.success =>
                     /\ Len(reqs) = 2
                     /\ reqs[2].method = "DELETE" /\ reqs[2].path = RecordsPath
                     /\ outcome.deletedRecord
               /\ Len(reqs) = 1 => IsErr(outcome)
         /\ ~HasPerm(h, call.args.appID, PermRead) =>
               /\ Len(reqs) = 1
               /\ reqs[1].method = "DELETE" /\ reqs[1].path = RecordsPath
               /\ reqs[1].params.app = call.args.appID /\ reqs[1].params.rec = call.args.recordID
               /\ ~outcome.deletedRecord
         /\ \A r1 \in Responses, r2 \in Responses :
               LET r == DeleteRecord([h EXCEPT !.Apps = <<>>], call.args, <<r1, r2>>)
               IN  /\ r.reqs[1].method = "GET" /\ r.reqs[1].path = RecordPath
                   /\ r.out.success =>
                         (Len(r.reqs) = 2 /\ r.reqs[2].method = "DELETE" /\ r.out.deletedRecord)

\* a record was deleted in an app that may be read and deleted from: it
\* was fetched, then deleted, and the result carries it
C14_Witness ==
    /\ call.name = "deleteRecord" /\ WellFormed(call)
    /\ HasPerm(h, call.args.appID, PermDelete) /\ HasPerm(h, call.args.appID, PermRead)
    /\ Len(reqs) = 2 /\ reqs[1].method = "GET" /\ reqs[2].method = "DELETE"
    /\ outcome.success /\ outcome.deletedRecord

\* C15: readRecords on a permitted app.  An omitted limit and a limit of 0
\* are both replaced by the default 10 and are no error; a limit below 0 or
\* above 500 is rejected; an offset below 0 or above 10000 is rejected and
\* an offset of 0 is accepted; the backend receives the normalized limit.
C15_ReadRecordsLimitAndOffset ==
    (call.name = "readRecords" /\ ~call.args.bad /\ call.args.appID # ""
        /\ Permitted(h, call.args.appID))
      => LET l == call.args.limit
             o == call.args.offset
             normalized == IF IsNil(l) \/ Deref(l) = 0 THEN ReadRecordsDefaultLimit ELSE Deref(l)
             accepted == /\ IsNil(l) \/ (Deref(l) >= 0 /\ Deref(l) <= ReadRecordsMaxLimit)
                         /\ o >= 0 /\ o <= ReadRecordsMaxOffset
         IN  IF accepted
             THEN /\ Len(reqs) = 1
                  /\ reqs[1].path = RecordsPath
                  /\ reqs[1].params.limit = normalized
                  /\ reqs[1].params.offset = o
             ELSE IsInvalidParams(outcome) /\ reqs = <<>>

\* C16: the limit readRecordComments sends to the backend is within 1..10:
\* 10 for an omitted limit, and a limit outside 1..10 is rejected with
\* "Limit must be between 1 and 10" and sends nothing.
C16_CommentsLimitWithinOneToTen ==
    call.name = "readRecordComments"
      => /\ \A i \in 1..Len(reqs) :
               reqs[i].path = CommentsPath =>
                   /\ reqs[i].params.limit >= 1 /\ reqs[i].params.limit <= CommentsMaxLimit
                   /\ IsNil(call.args.limit) => reqs[i].params.limit = CommentsDefaultLimit
         /\ (/\ ~call.args.bad /\ call.args.appID # "" /\ call.args.recordID # ""
             /\ call.args.order \in {"", "asc", "desc"} /\ call.args.offset >= 0
             /\ ~IsNil(call.args.limit)
             /\ (Deref(call.args.limit) < 1 \/ Deref(call.args.limit) > CommentsMaxLimit))
              => /\ outcome = Error(InvalidParamsCode, "Limit must be between 1 and 10")
                 /\ reqs = <<>>

\* C17: a backend answer with a 2xx status is a success, decoded as the
\* expected shape, and an answer with any other status is a backend error
\* that is never decoded.  Stated for the last request of a call, whose
\* answer decides the outcome.
C17_Every2xxIsSuccess ==
    (call.name \in {"readAppInfo", "createRecord", "readRecords", "updateRecord"} /\ reqs # <<>>)
      => LET st == reqs[Len(reqs)].status
         IN  /\ (st >= 200 /\ st <= 299)
                   => outcome.msg # "kintone server returned an error"
             /\ (st # 0 /\ (st < 200 \/ st > 299))
                   => outcome = Error(InternalErrorCode, "kintone server returned an error")

\* the tool names a client may try: the listed ones, the ones of earlier
\* lists, and one that was never listed
ToolNames == ToolsList \cup Old_ToolsList \cup {"dropDatabase"}

\* C18: the tools that tools/list names are the tools that tools/call
\* dispatches to an executor: a call of a listed tool is never answered
\* "Unknown tool name", and a call of a tool that is not listed always is.
\* In the first server and in the current one.
C18_ListedToolsAreDispatched ==
    /\ \A name \in ToolNames :
          LET f == CallFrame(Ptr(1), name, Old_BadArgs)
          IN  name \in Old_ToolsList <=> Old_ToolsCall(h, f, <<OKResp, OKResp>>).out.msg # UnknownToolMsg
    /\ \A name \in ToolNames :
          name \in ToolsList <=> ToolsCall(h, name, BadArgs, <<OKResp, OKResp>>, files).out.msg # UnknownToolMsg
    /\ call # NoCall => (call.name \in ToolsList <=> outcome.msg # UnknownToolMsg)

\* the part of a file name before its extension
Stem(name) == SubSeq(name, 1, Len(name) - Len(Ext(name)))

\* the least k >= 1 for which "stem (k)ext" is not in the directory
LeastFree(fs, name) ==
    CHOOSE k \in 1..(Cardinality(fs) + 1) :
        /\ Numbered(Stem(name), k, Ext(name)) \notin fs
        /\ \A j \in 1..(k - 1) : Numbered(Stem(name), j, Ext(name)) \in fs

\* three calls in a row, from position i of the history, saved a file for the
\* same name
ThreeSaved(i) ==
    /\ i + 2 <= Len(trace)
    /\ \A j \in i..(i + 2) : trace[j].saved /\ trace[j].name = trace[i].name

\* C19: getDownloadFilePath never returns the path of a file that is already
\* in the download directory: it returns the name itself when that is free,
\* else the first free one of "name (1).ext", "name (2).ext", ...; no download
\* removes or replaces a file that was there, and three downloads in a row
\* that resolve to the same name, in a directory that has none of the three
\* paths, are saved as name.ext, name (1).ext and name (2).ext.
C19_DownloadNeverOverwrites ==
    /\ \A name \in Dl_FileNames :
          LET p == getDownloadFilePath(files, name)
          IN  /\ p \notin files
              /\ name \notin files => p = name
              /\ name \in files => p = Numbered(Stem(name), LeastFree(files, name), Ext(name))
    /\ \A i \in 1..Len(trace) :
          /\ trace[i].before \subseteq trace[i].after
          /\ trace[i].saved => /\ trace[i].path \notin trace[i].before
                               /\ trace[i].after = trace[i].before \cup {trace[i].path}
    /\ \A i \in 1..Len(trace) :
          LET name == trace[i].name
              one == Numbered(Stem(name), 1, Ext(name))
              two == Numbered(Stem(name), 2, Ext(name))
          IN  ThreeSaved(i) /\ {name, one, two} \cap trace[i].before = {}
                  => <<trace[i].path, trace[i + 1].path, trace[i + 2].path>> = <<name, one, two>>

\* three downloads in a row of a.t were saved as a.t, a (1).t and a (2).t, and
\* the directory holds the three files
C19_Witness ==
    /\ ThreeSaved(1)
    /\ trace[1].name = <<"a", ".", "t">>
    /\ <<trace[1].path, trace[2].path, trace[3].path>>
          = << <<"a", ".", "t">>, Numbered(<<"a">>, 1, <<".", "t">>), Numbered(<<"a">>, 2, <<".", "t">>) >>
    /\ {trace[1].path, trace[2].path, trace[3].path} \subseteq files

\* what the disk may answer when the handler opens and reads a file
DiskAnswers ==
    {[OKResp EXCEPT !.openFails = o, !.copyFails = c] : o \in BOOLEAN, c \in BOOLEAN}

\* both of 'path' and 'content' are set, or neither is
NotExactlyOne(a) == IsNil(a.path) = IsNil(a.content)

\* C20: uploadAttachmentFile requires exactly one of 'path' and 'content': a
\* call with both or with neither is rejected with an invalid-params error,
\* and the handler has then opened no file and sent no request to the backend,
\* whatever the disk and the backend would have answered.
C20_UploadNeedsExactlyOne ==
    (call.name = "uploadAttachmentFile" /\ ~call.args.bad /\ NotExactlyOne(call.args)) =>
        /\ IsErr(outcome) /\ outcome.code = InvalidParamsCode
        /\ outcome.msg \in {"Arguments 'path' or 'content' is required",
                            "Arguments 'path' and 'content' are mutually exclusive"}
        /\ reqs = <<>>
        /\ \A r \in DiskAnswers :
              LET u == UploadAttachmentFile(h, call.args, <<r, OKResp>>)
              IN  u.opened = <<>> /\ u.reqs = <<>> /\ u.out = outcome

\* a call of uploadAttachmentFile with both 'path' and 'content' was rejected
\* although the file could have been opened and the backend was ready to
\* accept it
C20_Witness ==
    /\ call.name = "uploadAttachmentFile"
    /\ ~call.args.bad
    /\ ~IsNil(call.args.path) /\ ~IsNil(call.args.content)
    /\ outcome.code = InvalidParamsCode
    /\ reqs = <<>>
    /\ LET u == UploadAttachmentFile(h, [call.args EXCEPT !.content = Nil], <<OKResp, OKResp>>)
       IN  u.opened = <<Deref(call.args.path)>> /\ Len(u.reqs) = 1

----------------------------------------------------------------------------
(* Claims about what reaches the backend *)

\* a mention the backend can take: a code, and a type that is absent or one
\* of the three known ones
GoodMention(m) == m.code # "" /\ m.type \in MentionTypes \cup {""}

\* a parsable createRecordComment call with its three required arguments
CommentCall ==
    /\ call.name = "createRecordComment"
    /\ ~call.args.bad
    /\ call.args.appID # "" /\ call.args.recordID # "" /\ call.args.text # ""

\* C21: createRecordComment sends every mention that has a code and no type
\* as type USER, sends the types USER, GROUP and ORGANIZATION unchanged, and
\* rejects the whole call with an invalid-params error and no backend request
\* when any mention has an empty code or a type outside the three.
C21_MentionsNormalizedOrRejected ==
    CommentCall =>
        LET ms == call.args.mentions
        IN  /\ (\E i \in 1..Len(ms) : ~GoodMention(ms[i])) =>
                  /\ IsErr(outcome) /\ outcome.code = InvalidParamsCode
                  /\ reqs = <<>>
            /\ reqs # <<>> =>
                  LET sent == reqs[1].params.mentions
                  IN  /\ Len(reqs) = 1
                      /\ Len(sent) = Len(ms)
                      /\ \A i \in 1..Len(ms) :
                            /\ sent[i].code = ms[i].code
                            /\ sent[i].type = (IF ms[i].type = "" THEN "USER" ELSE ms[i].type)
                            /\ sent[i].type \in MentionTypes

\* a comment with a mention that has a code and no type reached the backend,
\* the mention sent as a USER
C21_Witness ==
    /\ CommentCall
    /\ Len(reqs) = 1
    /\ \E i \in 1..Len(call.args.mentions) :
          /\ call.args.mentions[i] = [code |-> "u1", type |-> ""]
          /\ reqs[1].params.mentions[i] = [code |-> "u1", type |-> "USER"]

\* the tool names that the switch of ToolsCall has a case for
DispatchedTools ==
    {"listApps", "readAppInfo", "createRecord", "readRecords", "updateRecord",
     "deleteRecord", "downloadAttachmentFile", "uploadAttachmentFile",
     "readRecordComments", "createRecordComment"}

\* C22: a tools/call whose name is not one of the dispatchable tools is
\* answered with the invalid-params error "Unknown tool name" and sends no
\* request to the backend, whatever its arguments are. In the current server
\* for every call made, and in the first server for every name it has no case
\* for.
C22_UnknownToolRejected ==
    /\ (call # NoCall /\ call.name \notin DispatchedTools) =>
          /\ outcome = Error(InvalidParamsCode, UnknownToolMsg)
          /\ reqs = <<>>
    /\ Idle => \A name \in ToolNames \ Old_ToolsList, a \in {Old_NoArgs, Old_BadArgs} :
          Old_ToolsCall(h, CallFrame(Ptr(1), name, a), <<OKResp, OKResp>>)
              = Ret(<<>>, Error(InvalidParamsCode, UnknownToolMsg))

\* a tool that does not exist was called with well-formed arguments naming an
\* app, and was refused without a backend request
C22_Witness ==
    /\ call.name = "dropDatabase"
    /\ ~call.args.bad /\ call.args.appID = "1"
    /\ outcome.code = InvalidParamsCode /\ outcome.msg = UnknownToolMsg
    /\ reqs = <<>>

\* the backend did not give a usable answer
Failed(r) == r.status \notin 200..299 \/ ~r.decodable

\* the requests `rq` of a deleteRecord call are in order: a DELETE is the last
\* request, and whatever precedes it is one GET that was answered with success
DeleteComesLast(rq) ==
    \A i \in 1..Len(rq) :
        rq[i].method = "DELETE" =>
            /\ i = Len(rq)
            /\ i <= 2
            /\ i = 2 => (rq[1].method = "GET" /\ rq[1].path = RecordPath /\ rq[1].status \in 200..299)

\* C23: in deleteRecord the read-back GET, when made, comes before the DELETE;
\* when that GET fails the call returns its error and no DELETE is sent; a
\* DELETE is sent only when the app has the delete permission and the
\* read-back, if made, succeeded. For the call made, and for every answer the
\* backend could have given to it, in the server of the settings file and in
\* the current one.
C23_NoDeleteAfterFailedReadBack ==
    (call.name = "deleteRecord" /\ WellFormed(call)) =>
        /\ DeleteComesLast(reqs)
        /\ (\E i \in 1..Len(reqs) : reqs[i].method = "DELETE") => HasPerm(h, call.args.appID, PermDelete)
        /\ (reqs # <<>> /\ reqs[1].method = "GET" /\ reqs[1].status \notin 200..299) =>
              /\ Len(reqs) = 1
              /\ IsErr(outcome) /\ outcome.code = InternalErrorCode
        /\ \A r1 \in Responses, r2 \in Responses :
              LET d == Cfg_DeleteRecord(h, call.args, <<r1, r2>>)
                  e == DeleteRecord([h EXCEPT !.Apps = <<>>], call.args, <<r1, r2>>)
              IN  /\ DeleteComesLast(d.reqs) /\ DeleteComesLast(e.reqs)
                  /\ (d.reqs # <<>> /\ d.reqs[1].method = "GET" /\ Failed(r1)) =>
                        (Len(d.reqs) = 1 /\ IsErr(d.out) /\ d.out.code = InternalErrorCode)
                  /\ (Failed(r1) => Len(e.reqs) = 1 /\ e.reqs[1].method = "GET" /\ IsErr(e.out))

\* a deleteRecord call on an app with the read and the delete permission whose
\* read-back was answered 500: the call failed and nothing was deleted
C23_Witness ==
    /\ call.name = "deleteRecord" /\ WellFormed(call)
    /\ HasPerm(h, call.args.appID, PermDelete) /\ HasPerm(h, call.args.appID, PermRead)
    /\ Len(reqs) = 1
    /\ reqs[1].method = "GET" /\ reqs[1].status = 500
    /\ IsErr(outcome)

\* the request `r` is encoded as documented for its method
EncodedAsDocumented(r) ==
    /\ r.method = "GET" => (r.query /\ ~r.body /\ r.ctype = "")
    /\ r.method \in {"POST", "PUT", "DELETE"} =>
          /\ r.body /\ ~r.query
          /\ r.ctype = (IF r.path = "/k/v1/file.json" THEN "multipart/form-data" ELSE "application/json")

\* C24: every GET sent to the backend carries its parameters in the query
\* string and has no body; every POST, PUT and DELETE carries them in a JSON
\* body with a JSON content type (multipart/form-data for the file upload); a
\* readRecords call that reaches the backend makes exactly one GET to the
\* records endpoint, its limit in the query.
C24_RequestsEncodedByMethod ==
    /\ \A i \in 1..Len(reqs) : EncodedAsDocumented(reqs[i])
    /\ (call.name = "readRecords" /\ reqs # <<>>) =>
          /\ Len(reqs) = 1
          /\ reqs[1].method = "GET" /\ reqs[1].path = RecordsPath
          /\ reqs[1].query
          /\ reqs[1].params.limit = Deref(call.args.limit)

----------------------------------------------------------------------------
(* Claims about listApps *)

RECURSIVE PermittedOf(_, _)
\* the apps of the page the global policy permits, in the order of the page
PermittedOf(hh, page) ==
    IF page = <<>> THEN <<>>
    ELSE IF Permitted(hh, page[1]) THEN <<page[1]>> \o PermittedOf(hh, SubSeq(page, 2, Len(page)))
    ELSE PermittedOf(hh, SubSeq(page, 2, Len(page)))

\* handlers of the server of the settings file, configured with the apps `ids`
ConfiguredWith(ids) ==
    [NoHandlers EXCEPT !.URL = BaseURL, !.Token = "t",
                       !.Apps = [i \in 1..Len(ids) |->
                                    [ID |-> ids[i],
                                     Permissions |-> [Read |-> TRUE, Write |-> FALSE, Delete |-> FALSE]]]]

\* the call made was a listApps call, answered as ListApps answers the pages
\* r1 and r2 (what the requests recorded tell about r1 and r2 is compared
\* first: the status of each, and the length of the page, which the offset
\* of the probe gives away)
ListedFrom(r1, r2) ==
    /\ call.name = "listApps"
    /\ reqs # <<>> => r1.status = reqs[1].status
    /\ Len(reqs) = 2 =>
          /\ r2.status = reqs[2].status
          /\ Len(r1.apps) = reqs[2].params.offset - reqs[1].params.offset
          /\ outcome.hasNext => Len(r2.apps) > 0
    /\ ListApps(h, call.args, <<r1, r2>>) = Ret(reqs, outcome)

----------------------------------------------------------------------------
(* Claims about the requests of one call *)

\* the most backend requests a call of the tool may make
MaxRequests(name) ==
    IF name \in {"listApps", "readAppInfo", "deleteRecord"} THEN 2 ELSE 1

\* C26: no backend request is retried: a request that failed is never followed
\* by another request of the same call, and a call makes at most 2 requests
\* for listApps, readAppInfo and deleteRecord and at most 1 for any other tool.
C26_NoRetries ==
    call # NoCall =>
        /\ Len(reqs) <= MaxRequests(call.name)
        /\ \A i \in 1..(Len(reqs) - 1) : reqs[i].status = StatusOK
        /\ (reqs # <<>> /\ reqs[Len(reqs)].status # StatusOK /\ call.name # "listApps") => IsErr(outcome)

\* the DELETE of a deleteRecord call, sent after the read-back, was answered
\* 500: the call failed with two requests made
C26_Witness ==
    /\ call.name = "deleteRecord"
    /\ Len(reqs) = 2
    /\ reqs[1].method = "GET" /\ reqs[2].method = "DELETE"
    /\ reqs[2].status = 500
    /\ IsErr(outcome)

----------------------------------------------------------------------------
(* Claims about a failed backend request *)

\* the request decodes the answer into a result: every request but the DELETE
\* of records and the POST of a comment
WantsResult(r) == ~(r.method = "DELETE" \/ r.path = "/k/v1/record/comment.json")

\* the request `r`, whose answer had the body of `resp`, failed: no answer, a
\* status that is not a success, or a body that cannot be decoded
RequestFailed(r, resp) ==
    r.status \notin 200..299 \/ (WantsResult(r) /\ ~resp.decodable)

\* arguments of the current server that make each tool reach the backend
ReachingArgs == [NoArgs EXCEPT !.appID = "1", !.recordID = "1", !.record = TRUE]

\* C27: when the last backend request of a tools/call failed (no answer, a
\* status that is not a success, an undecodable answer), the next-page probe
\* of listApps excepted, the only frame written is an error frame with the
\* internal-error code and the outcome carries no success; for the call
\* handled, for every answer the backend could have given to it, and for the
\* same tool in the current server.
C27_FailedRequestIsInternalError ==
    (phase = "serving" /\ frame.method = "tools/call") =>
        /\ (reqs # <<>> /\ reqs[Len(reqs)].status \notin 200..299) =>
              /\ wrote = <<ErrorFrame(frame.id, InternalErrorCode)>>
              /\ IsErr(outcome) /\ outcome.code = InternalErrorCode /\ ~outcome.success
        /\ \A r1 \in Responses, r2 \in Responses :
              LET s == Old_Serve(h, frame, <<r1, r2>>)
                  n == Len(s.reqs)
                  t == ToolsCall([h EXCEPT !.Apps = <<>>], frame.tool, ReachingArgs, <<r1, r2>>, {})
                  m == Len(t.reqs)
              IN  /\ (n >= 1 /\ RequestFailed(s.reqs[n], <<r1, r2>>[n])) =>
                        /\ s.wrote = <<ErrorFrame(frame.id, InternalErrorCode)>>
                        /\ ~s.out.success
                  /\ (/\ frame.tool \in Old_ToolsList
                      /\ m >= 1
                      /\ RequestFailed(t.reqs[m], <<r1, r2>>[m])
                      /\ ~(frame.tool = "listApps" /\ m = 2)) =>
                        /\ IsErr(t.out) /\ t.out.code = InternalErrorCode
                        /\ ~t.out.success

\* a createRecord call with an id whose POST was answered 500: the client got
\* one error frame with the internal-error code
C27_Witness ==
    /\ phase = "serving"
    /\ frame.method = "tools/call" /\ frame.tool = "createRecord" /\ ~IsNil(frame.id)
    /\ Len(reqs) = 1 /\ reqs[1].method = "POST" /\ reqs[1].status = 500
    /\ wrote = <<ErrorFrame(frame.id, InternalErrorCode)>>

----------------------------------------------------------------------------
(* Claims about the configuration a running server has *)

\* C28: the server serves only with a base URL and at least one credential
\* (username with password, or an API token) found at startup, and every
\* backend request carries a non-empty X-Cybozu-Authorization or
\* X-Cybozu-API-Token.
C28_ServesOnlyWithURLAndCredential ==
    /\ phase = "serving" =>
          /\ h.URL # ""
          /\ h.Auth # "" \/ h.Token # ""
    /\ \A i \in 1..Len(reqs) : reqs[i].auth # "" \/ reqs[i].token # ""

----------------------------------------------------------------------------
(* Claims about the paging of listApps *)

\* what a backend may hold: apps with distinct IDs, each with a name that
\* contains the filter "x" or not
Catalogs ==
    {c \in SeqsUpTo([id : AppIDs, named : BOOLEAN], NumApps) :
        \A i, j \in 1..Len(c) : i # j => c[i].id # c[j].id}

\* the apps of the catalog that a request with the name filter `name` is about
Matching(cat, name) == SelectSeq(cat, LAMBDA x : IsNil(name) \/ x.named)

\* the answer of a backend holding `cat` to a GET of /k/v1/apps.json with the
\* parameters `p`: the apps matching p.name, from p.offset on, p.limit at most
Answer(cat, p) ==
    LET m == Matching(cat, p.name)
        last == IF p.offset + p.limit < Len(m) THEN p.offset + p.limit ELSE Len(m)
        page == SubSeq(m, p.offset + 1, last)
    IN  Resp(200, TRUE, [i \in 1..Len(page) |-> page[i].id])

\* listApps served by a backend that holds `cat` and answers the probe with
\* `probe` when given, with the probe's own answer otherwise
ListAppsOn(hh, a, cat, probe) ==
    LET first == ListApps(hh, a, <<OKResp, OKResp>>).reqs[1].params
        r1 == Answer(cat, first)
        second == ListApps(hh, a, <<r1, OKResp>>).reqs[2].params
        r2 == IF IsNil(probe) THEN Answer(cat, second) ELSE Deref(probe)
    IN  [page |-> r1, probed |-> second, ret |-> ListApps(hh, a, <<r1, r2>>)]

\* C29: listApps reports hasNext only when the backend holds a further app,
\* after the page it returned, that matches the name filter of the request;
\* the probe is made at offset + the number of apps the backend returned, with
\* limit 1; a probe that fails gives hasNext = FALSE and the call succeeds.
\* For the call made, on every catalog the backend may hold.
C29_HasNextMeansMoreMatchingApps ==
    (call.name = "listApps" /\ WellFormed(call)) =>
        \A cat \in Catalogs :
            LET l == ListAppsOn(h, call.args, cat, Nil)
                f == ListAppsOn(h, call.args, cat, Ptr(Resp(500, TRUE, <<>>)))
            IN  /\ l.probed.offset = call.args.offset + Len(l.page.apps)
                /\ l.probed.limit = 1
                /\ l.ret.out.hasNext =>
                      Len(Matching(cat, call.args.name)) > call.args.offset + Len(l.page.apps)
                /\ ~IsErr(f.ret.out) /\ ~f.ret.out.hasNext

----------------------------------------------------------------------------
(* Claims about a download that fails half-way *)

\* C30: when io.Copy fails on the file created for a download, the call
\* returns an internal error that names the path, the file is not in the
\* directory afterwards and the directory is as it was before the call; no
\* failed download changes the directory; a successful download reports the
\* path it saved, which is then in the directory, and the length of the body.
C30_FailedDownloadLeavesNoFile ==
    \A i \in 1..Len(trace) :
        LET t == trace[i]
            last == i = Len(trace) /\ call.name = "downloadAttachmentFile"
        IN  /\ t.copyFailed =>
                  /\ ~t.saved
                  /\ t.path # <<>> /\ t.path \notin t.after
                  /\ t.after = t.before
                  /\ last => /\ IsErr(outcome) /\ outcome.code = InternalErrorCode
                              /\ outcome.filePath = t.path
            /\ ~t.saved => t.after = t.before
            /\ t.saved =>
                  /\ t.path \in t.after
                  /\ last => /\ ~IsErr(outcome) /\ outcome.success
                              /\ outcome.filePath = t.path
                              /\ outcome.size = t.body
                              /\ files = t.after

\* a download saved two bytes as a.t, and the next one, given the same name,
\* failed while a(1).t was being written: only a.t is in the directory
C30_Witness ==
    /\ Len(trace) = 2
    /\ call.name = "downloadAttachmentFile"
    /\ trace[1].saved /\ trace[1].path = <<"a", ".", "t">> /\ trace[1].body = 2
    /\ trace[2].copyFailed /\ trace[2].path = Numbered(<<"a">>, 1, <<".", "t">>)
    /\ files = trace[1].before \cup {<<"a", ".", "t">>}
    /\ trace[2].path \notin files
    /\ IsErr(outcome) /\ outcome.filePath = trace[2].path

====
